---- MODULE Spec2Model ----
(***************************************************************************)
(* The Erigon importer of akula-toolbox (execute_with_erigon): the four    *)
(* Convert stages, the glue stages and TerminatingStage, driven by the     *)
(* staged sync engine over a source (Erigon) database and the target       *)
(* (Akula) database; and the chain specification the node is configured   *)
(* with (models/chainspec.rs), with the Ethash engine's use of it.         *)
(***************************************************************************)
EXTENDS Integers, Sequences, FiniteSets, TLC

\* ------------------------------------------------------------------ bounds
\* Block numbers of the modelled chain are 0..MaxBlock.
MaxBlock == 2
\* Block hashes are 1..MaxHash (several bodies/headers may share a height).
MaxHash == 2
\* Transaction ids of the source BlockTransaction table are 0..MaxTxId.
MaxTxId == 3
\* The batch threshold of the convert stages (500_000 in the program),
\* scaled down so that a batch boundary falls inside a modelled table.
BUFFERING_FACTOR == 2
\* Bytes of a big-endian BlockNumber / TxId key component (8 in the
\* program) and of a block hash (32 in the program), scaled down.
U64_LENGTH == 2
KECCAK_LENGTH == 2
\* Activation blocks of a chain specification are 0..MaxFork, the addresses
\* of its contracts and balances 1..MaxAddr.
MaxFork == 2
MaxAddr == 2

\* --------------------------------------------------------- program constants
\* Duration::from_secs(30), the flush deadline of ConvertBodies.
FLUSH_DEADLINE == 30

\* ------------------------------------------------------------------- options
\* Option<T>: None is the empty sequence, Some(v) the one-element sequence.
None == <<>>
Some(v) == <<v>>
IsSome(o) == Len(o) = 1
Unwrap(o) == o[1]
UnwrapOr(o, d) == IF IsSome(o) THEN o[1] ELSE d

\* -------------------------------------------------------------------- bytes
Byte == 0..255

\* Big-endian bytes of an unsigned integer, fixed width.
RECURSIVE BigEndian(_, _)
BigEndian(n, width) ==
    IF width = 0 THEN <<>>
    ELSE BigEndian(n \div 256, width - 1) \o <<n % 256>>

RECURSIVE FromBigEndian(_)
FromBigEndian(bs) ==
    IF Len(bs) = 0 THEN 0
    ELSE 256 * FromBigEndian(SubSeq(bs, 1, Len(bs) - 1)) + bs[Len(bs)]

\* Lexicographic order on byte strings (the order of the store's keys).
RECURSIVE LexLess(_, _)
LexLess(a, b) ==
    IF Len(b) = 0 THEN FALSE
    ELSE IF Len(a) = 0 THEN TRUE
    ELSE IF a[1] # b[1] THEN a[1] < b[1]
    ELSE LexLess(Tail(a), Tail(b))

LexLeq(a, b) == a = b \/ LexLess(a, b)

\* ------------------------------------------------------------------- tables
Header == "Header"
HeadersTotalDifficulty == "HeadersTotalDifficulty"
CanonicalHeader == "CanonicalHeader"
BlockBody == "BlockBody"
BlockTransaction == "BlockTransaction"

Tables == {Header, HeadersTotalDifficulty, CanonicalHeader, BlockBody, BlockTransaction}

\* Tables keyed by (BlockNumber, H256); CanonicalHeader is keyed by BlockNumber.
HashKeyed(T) == T \in {Header, HeadersTotalDifficulty, BlockBody}

\* ------------------------------------------------------------ key codecs
\* TableEncode of a BlockNumber / TxId: 8 bytes, big-endian.
EncodeU64(n) == BigEndian(n, U64_LENGTH)

\* TableEncode of (BlockNumber, H256): the concatenation of the components.
EncodeHeaderKey(n, h) == EncodeU64(n) \o BigEndian(h, KECCAK_LENGTH)

\* encode_seek_key: the block-number prefix shared by all keys of a height.
EncodeSeekKey(n) == EncodeU64(n)

\* ErasedTable::<T>::decode_key: None when the length is wrong.
DecodeKey(T, k) ==
    IF HashKeyed(T)
    THEN IF Len(k) = U64_LENGTH + KECCAK_LENGTH
         THEN Some([number |-> FromBigEndian(SubSeq(k, 1, U64_LENGTH)),
                    hash |-> FromBigEndian(SubSeq(k, U64_LENGTH + 1, Len(k)))])
         ELSE None
    ELSE IF Len(k) = U64_LENGTH
         THEN Some([number |-> FromBigEndian(k), hash |-> 0])
         ELSE None

\* The re-encoding of a decoded key.
EncodeKey(T, key) ==
    IF HashKeyed(T) THEN EncodeHeaderKey(key.number, key.hash)
    ELSE EncodeU64(key.number)

\* ---------------------------------------------------------- value codecs
\* RLP of an unsigned integer below 256.
RlpEncode(n) ==
    IF n = 0 THEN <<128>>
    ELSE IF n < 128 THEN <<n>>
    ELSE <<129, n>>

\* rlp::decode of an unsigned integer: None on a malformed or non-canonical
\* item (empty input, leading zero, a long form for a short value, trailing
\* bytes).
RlpDecode(bs) ==
    IF Len(bs) = 1 /\ bs[1] \in 1..127 THEN Some(bs[1])
    ELSE IF bs = <<128>> THEN Some(0)
    ELSE IF Len(bs) = 2 /\ bs[1] = 129 /\ bs[2] >= 128 THEN Some(bs[2])
    ELSE None

\* Length of the RLP item at the head of bs (0 when there is none).
RlpItemLen(bs) ==
    IF Len(bs) = 0 THEN 0
    ELSE IF bs[1] <= 128 THEN 1
    ELSE IF bs[1] = 129 /\ Len(bs) >= 2 THEN 2
    ELSE 0

\* BodyForStorage as an RLP list <<base_tx_id, tx_amount>>.
EncodeBody(body) ==
    LET payload == RlpEncode(body.base_tx_id) \o RlpEncode(body.tx_amount)
    IN  <<192 + Len(payload)>> \o payload

\* rlp::decode::<BodyForStorage>.
DecodeBody(bs) ==
    IF Len(bs) = 0 \/ bs[1] # 192 + (Len(bs) - 1) THEN None
    ELSE LET payload == Tail(bs)
             n1 == RlpItemLen(payload)
             first == SubSeq(payload, 1, n1)
             second == SubSeq(payload, n1 + 1, Len(payload))
         IN  IF n1 = 0 \/ RlpDecode(first) = None \/ RlpDecode(second) = None
             THEN None
             ELSE Some([base_tx_id |-> Unwrap(RlpDecode(first)),
                        tx_amount |-> Unwrap(RlpDecode(second))])

\* value_decoder of a convert_table stage followed by .encode() and
\* value_encoder: rlp::decode for Header and HeadersTotalDifficulty,
\* H256::decode for CanonicalHeader; None when decoding fails.
ReencodeValue(T, v) ==
    IF T = CanonicalHeader
    THEN IF Len(v) = KECCAK_LENGTH THEN Some(v) ELSE None
    ELSE IF RlpDecode(v) = None THEN None
         ELSE Some(RlpEncode(Unwrap(RlpDecode(v))))

\* rlp::decode::<Transaction>(&v)?.encode() of ConvertBodies.
ReencodeTransaction(v) ==
    IF RlpDecode(v) = None THEN None
    ELSE Some(RlpEncode(Unwrap(RlpDecode(v))))

\* ------------------------------------------------------------------ cursors
\* A table is the sequence of its entries <<key, value>> in key order.
KeyOf(e) == e[1]
ValueOf(e) == e[2]

\* seek(key): index of the first entry whose key is >= key, Len + 1 if none.
RECURSIVE SeekFrom(_, _, _)
SeekFrom(tbl, key, j) ==
    IF j > Len(tbl) THEN j
    ELSE IF LexLeq(key, KeyOf(tbl[j])) THEN j
    ELSE SeekFrom(tbl, key, j + 1)

Seek(tbl, key) == SeekFrom(tbl, key, 1)

\* Faulty variant: append accepts any key.
CanAppendAnywhere(tbl, k) == TRUE

\* append((k, v)): succeeds iff k is strictly greater than the last key.
CanAppend(tbl, k) == Len(tbl) = 0 \/ LexLess(KeyOf(tbl[Len(tbl)]), k)

\* ------------------------------------------------------------------- stages
ConvertHeaders == "ConvertHeaders"
ConvertHeadersTD == "ConvertHeadersTD"
ConvertCanonical == "ConvertCanonical"
ConvertBodies == "ConvertBodies"
BlockHashes == "BlockHashes"
SenderRecovery == "SenderRecovery"
Execution == "Execution"
TerminatingStage == "TerminatingStage"

\* Faulty variant: ConvertCanonical is registered before ConvertHeadersTD.
StagesCanonicalFirst ==
    <<ConvertHeaders, ConvertCanonical, ConvertHeadersTD, ConvertBodies,
      BlockHashes, SenderRecovery, Execution, TerminatingStage>>

\* The stages in registration order (staged_sync.push).
Stages ==
    <<ConvertHeaders, ConvertHeadersTD, ConvertCanonical, ConvertBodies,
      BlockHashes, SenderRecovery, Execution, TerminatingStage>>

\* The stages defined outside this program: only their contract is known,
\* and they write none of the tables the Convert stages write.
GlueStages == {BlockHashes, SenderRecovery, Execution}

StageIds == {Stages[s] : s \in 1..Len(Stages)}

\* The stages built on convert_table, and the table each converts.
TableStages == {ConvertHeaders, ConvertHeadersTD, ConvertCanonical}

TableOf(S) ==
    CASE S = ConvertHeaders -> Header
      [] S = ConvertHeadersTD -> HeadersTotalDifficulty
      [] S = ConvertCanonical -> CanonicalHeader
      [] OTHER -> BlockBody

\* -------------------------------------------------------------------- state
VARIABLES
    erigon,          \* the source database: table -> entries in key order
    erigon_height,   \* the source holds the blocks 0..erigon_height so far
    disk,            \* the committed target database: tables and progress
    tx,              \* the writer's view of the target database
    pc,              \* where the process is: down, genesis, run, engine,
                     \* begin, extract, convert, drain, flush, return,
                     \* returned, unwind
    how,             \* why the process is down: init, crash, error, panic,
                     \* exit0
    stage,           \* index in Stages of the stage the engine is at
    previous_stage,  \* Option of (id, progress) of the stage done before
    input,           \* the StageInput of the running execute
    highest_block,   \* execute's highest_block
    walker,          \* index in the source table of the walker's next entry
    i,               \* convert_table's count of extracted entries
    batch,           \* the entries extracted and not yet converted
    converted,       \* per batch entry: None until a worker produced it
    accum_txs,       \* ConvertBodies' accum_txs of the current batch
    elapsed,         \* time since the invocation began, as last observed
    done,            \* the done flag execute is about to return
    output,          \* Option of what execute returned to the engine
    reordered,       \* some worker finished before one of a lower index
    rerun,           \* this run began where a completed run ended, with
                     \* the source unchanged
    writers,         \* how many read-write transactions are open on the
                     \* target database
    ron,             \* the chain specification as declared in a .ron file
    chain_spec,      \* Option of the ChainSpec deserialized from it
    call,            \* the last call made on the ChainSpec or on the
                     \* consensus verifier, and its result
    consensus        \* Option of what init_consensus returned

vars == <<erigon, erigon_height, disk, tx, pc, how, stage, previous_stage,
          input, highest_block, walker, i, batch, converted, accum_txs,
          elapsed, done, output, reordered, rerun, writers,
          ron, chain_spec, call, consensus>>

\* The variables of the importer and those of the chain specification.
importvars == <<erigon, erigon_height, disk, tx, pc, how, stage,
                previous_stage, input, highest_block, walker, i, batch,
                converted, accum_txs, elapsed, done, output, reordered,
                rerun, writers>>

chainvars == <<ron, chain_spec, call, consensus>>

\* The block number an entry of a block-keyed table is stored under.
BlockOf(e) == FromBigEndian(SubSeq(KeyOf(e), 1, U64_LENGTH))

RECURSIVE FilterUpTo(_, _)
FilterUpTo(tbl, h) ==
    IF Len(tbl) = 0 THEN <<>>
    ELSE IF BlockOf(Head(tbl)) <= h THEN <<Head(tbl)>> \o FilterUpTo(Tail(tbl), h)
    ELSE FilterUpTo(Tail(tbl), h)

\* What a read transaction on the source sees of table T: the entries of
\* the blocks imported so far; BlockTransaction is keyed by TxId and whole.
Source(T) ==
    IF T = BlockTransaction THEN erigon[T]
    ELSE FilterUpTo(erigon[T], erigon_height)

\* ------------------------------------------------------------ exec output
\* ExecOutput::Progress, and the error of a failed execute.
Progress(p, d, c) ==
    [kind |-> "Progress", stage_progress |-> p, done |-> d, must_commit |-> c]

MalformedEntry == "MalformedEntry"
OutOfOrderAppend == "OutOfOrderAppend"

Failed(cause) ==
    [kind |-> cause, stage_progress |-> 0, done |-> FALSE, must_commit |-> FALSE]

\* ExecOutput::Unwind.
Unwind(h) == [kind |-> "Unwind", unwind_to |-> h]

IsProgress(out) == IsSome(out) /\ Unwrap(out).kind = "Progress"
IsUnwind(out) == IsSome(out) /\ Unwrap(out).kind = "Unwind"
IsError(out) == IsSome(out) /\ Unwrap(out).kind \notin {"Progress", "Unwind"}

\* A converted entry: Ok((block_num, key, value [, txs])) or Err.
Converted(n, k, v, txs) == [ok |-> TRUE, block_num |-> n, key |-> k, value |-> v, txs |-> txs]

ConvertErr == [ok |-> FALSE, block_num |-> None, key |-> <<>>, value |-> <<>>, txs |-> <<>>]

\* The time samples Instant::now() - started_at may take.
ElapsedSamples == {0, FLUSH_DEADLINE, FLUSH_DEADLINE + 1}

\* ------------------------------------------------------------ convert_table
\* Faulty variant: highest_block is not seeded with the recorded progress.
InitialHighestBlockUnseeded(in) == None

\* let mut highest_block = input.stage_progress.
InitialHighestBlock(in) == in.stage_progress

\* Faulty variant: a resumed walk is seeked to the recorded progress itself.
TableSeekKeyAtProgress(in) ==
    IF IsSome(in.stage_progress) THEN EncodeU64(Unwrap(in.stage_progress))
    ELSE EncodeU64(1)

\* Faulty variant: a first walk starts at block 0.
TableSeekKeyFromGenesis(in) == EncodeU64(UnwrapOr(in.stage_progress, 0))

\* Faulty variant: the walk is seeked one block too far.
TableSeekKeySkipping(in) == EncodeU64(UnwrapOr(in.stage_progress, 0) + 2)

\* The walker is seeked to the encoding of stage_progress.unwrap_or(0) + 1.
TableSeekKey(in) == EncodeU64(UnwrapOr(in.stage_progress, 0) + 1)

TableBegin ==
    /\ pc = "begin"
    /\ Stages[stage] \in TableStages
    /\ highest_block' = InitialHighestBlock(input)
    /\ walker' = Seek(Source(TableOf(Stages[stage])), TableSeekKey(input))
    /\ i' = 0
    /\ batch' = <<>>
    /\ converted' = <<>>
    /\ elapsed' = 0
    /\ pc' = "extract"
    /\ UNCHANGED chainvars
    /\ UNCHANGED <<writers, rerun, reordered, erigon, erigon_height, disk, tx,
                   how, stage, previous_stage, input, accum_txs, done,
                   output>>

\* The while-let loop: push entries until the walker ends or the running
\* count i reaches a multiple of the buffering factor.
RECURSIVE TableTake(_, _, _, _)
TableTake(tbl, w, cnt, acc) ==
    IF w > Len(tbl) THEN [batch |-> acc, walker |-> w, i |-> cnt]
    ELSE IF (cnt + 1) % BUFFERING_FACTOR = 0
         THEN [batch |-> Append(acc, tbl[w]), walker |-> w + 1, i |-> cnt + 1]
         ELSE TableTake(tbl, w + 1, cnt + 1, Append(acc, tbl[w]))

TableExtract ==
    /\ pc = "extract"
    /\ Stages[stage] \in TableStages
    /\ LET r == TableTake(Source(TableOf(Stages[stage])), walker, i, <<>>)
       IN  /\ batch' = r.batch
           /\ walker' = r.walker
           /\ i' = r.i
           /\ converted' = [j \in 1..Len(r.batch) |-> None]
           /\ pc' = IF Len(r.batch) = 0 THEN "return" ELSE "convert"
    /\ reordered' = FALSE
    /\ UNCHANGED chainvars
    /\ UNCHANGED <<writers, rerun, erigon, erigon_height, disk, tx, how,
                   stage, previous_stage, input, highest_block, accum_txs,
                   elapsed, done, output>>

\* Faulty variant: a value that fails to decode is passed through as it is.
TableConvertEntryLenient(T, e) ==
    LET key == DecodeKey(T, KeyOf(e))
        value == ReencodeValue(T, ValueOf(e))
    IN  IF key = None THEN ConvertErr
        ELSE Converted(Some(Unwrap(key).number), KeyOf(e),
                       IF value = None THEN ValueOf(e) ELSE Unwrap(value), <<>>)

\* The closure of the parallel map, applied to one extracted entry.
TableConvertEntry(T, e) ==
    LET key == DecodeKey(T, KeyOf(e))
        value == ReencodeValue(T, ValueOf(e))
    IN  IF key = None \/ value = None THEN ConvertErr
        ELSE Converted(Some(Unwrap(key).number), KeyOf(e), Unwrap(value), <<>>)

\* Faulty variant: the results are pushed in the order the workers finish in.
ResultSlotInFinishOrder(conv, j) ==
    CHOOSE k \in 1..Len(conv) : conv[k] = None /\ \A m \in 1..(k - 1) : conv[m] # None

\* collect_into_vec: the result of entry j is stored at index j of the
\* vector, whatever the order the workers finish in.
ResultSlot(conv, j) == j

\* Some entry of a lower index than j is still unconverted.
Overtakes(conv, j) == \E k \in 1..(j - 1) : conv[k] = None

\* A worker of the pool converts entry j.
TableConvert(j) ==
    /\ pc = "convert"
    /\ Stages[stage] \in TableStages
    /\ j \in 1..Len(batch)
    /\ converted[j] = None
    /\ converted' = [converted EXCEPT ![ResultSlot(converted, j)] =
                       Some(TableConvertEntry(TableOf(Stages[stage]), batch[j]))]
    /\ reordered' = (reordered \/ Overtakes(converted, j))
    /\ IF \A k \in 1..Len(batch) : k = j \/ converted[k] # None
       THEN pc' = "drain" /\ batch' = <<>>
       ELSE pc' = "convert" /\ batch' = batch
    /\ UNCHANGED chainvars
    /\ UNCHANGED <<writers, rerun, erigon, erigon_height, disk, tx, how,
                   stage, previous_stage, input, highest_block, walker, i,
                   accum_txs, elapsed, done, output>>

\* Faulty variant: highest_block keeps the first block number seen.
NextHighestKeepsFirst(hb, block_num) == IF IsSome(hb) THEN hb ELSE block_num

\* if let Some(block_num) = block_num { highest_block = Some(block_num) }.
NextHighest(hb, block_num) == IF IsSome(block_num) THEN block_num ELSE hb

\* Faulty variant: the append also records the block as progress.
CursorAppendRecording(db, T, e) ==
    [db EXCEPT !.tables[T] = Append(@, e),
               !.progress[ConvertHeaders] = Some(BlockOf(e))]

\* cur.append((key, value)) on the mutable cursor of table T, the key being
\* above the last one: the entry becomes the last of T in the writer.
CursorAppend(db, T, e) == [db EXCEPT !.tables[T] = Append(@, e)]

\* One turn of for res in converted.drain(..): res?, the highest_block
\* update and cur.append((key, value)).await?.
TableDrain ==
    /\ pc = "drain"
    /\ Stages[stage] \in TableStages
    /\ LET res == Unwrap(Head(converted))
           T == TableOf(Stages[stage])
       IN  IF ~res.ok
           THEN /\ output' = Some(Failed(MalformedEntry))
                /\ pc' = "returned"
                /\ UNCHANGED <<tx, highest_block, converted, elapsed>>
           ELSE /\ highest_block' = NextHighest(highest_block, res.block_num)
                /\ IF CanAppend(tx.tables[T], res.key)
                   THEN /\ tx' = CursorAppend(tx, T, <<res.key, res.value>>)
                        /\ converted' = Tail(converted)
                        /\ IF Len(converted) = 1
                           THEN /\ pc' = "extract"
                                /\ elapsed' \in {t \in ElapsedSamples : t >= elapsed}
                           ELSE /\ pc' = "drain"
                                /\ elapsed' = elapsed
                        /\ output' = output
                   ELSE /\ output' = Some(Failed(OutOfOrderAppend))
                        /\ pc' = "returned"
                        /\ UNCHANGED <<tx, converted, elapsed>>
    /\ UNCHANGED chainvars
    /\ UNCHANGED <<writers, rerun, reordered, erigon, erigon_height, disk,
                   how, stage, previous_stage, input, walker, i, batch,
                   accum_txs, done>>

\* Faulty variant: the previous stage's progress comes first.
TableStageProgressOfPrevious(hb, in) ==
    IF IsSome(in.previous_stage) THEN Unwrap(in.previous_stage).progress
    ELSE IF IsSome(hb) THEN Unwrap(hb)
    ELSE 0

\* Ok(ExecOutput::Progress { stage_progress: highest_block.unwrap_or_else(
\* previous stage's progress, or 0), done: true, must_commit: true }).
TableStageProgress(hb, in) ==
    IF IsSome(hb) THEN Unwrap(hb)
    ELSE IF IsSome(in.previous_stage) THEN Unwrap(in.previous_stage).progress
    ELSE 0

TableReturn ==
    /\ pc = "return"
    /\ Stages[stage] \in TableStages
    /\ output' = Some(Progress(TableStageProgress(highest_block, input), TRUE, TRUE))
    /\ pc' = "returned"
    /\ UNCHANGED chainvars
    /\ UNCHANGED <<writers, rerun, reordered, erigon, erigon_height, disk, tx,
                   how, stage, previous_stage, input, highest_block, walker,
                   i, batch, converted, accum_txs, elapsed, done>>

\* ------------------------------------------------------------ ConvertBodies
\* let mut highest_block = input.stage_progress.unwrap_or(BlockNumber(0));
\* the body walker is seeked to encode_seek_key(highest_block + 1);
\* started_at = Instant::now().
BodiesBegin ==
    /\ pc = "begin"
    /\ Stages[stage] = ConvertBodies
    /\ highest_block' = Some(UnwrapOr(input.stage_progress, 0))
    /\ walker' = Seek(Source(BlockBody),
                      EncodeSeekKey(UnwrapOr(input.stage_progress, 0) + 1))
    /\ batch' = <<>>
    /\ converted' = <<>>
    /\ accum_txs' = 0
    /\ elapsed' = 0
    /\ pc' = "extract"
    /\ UNCHANGED chainvars
    /\ UNCHANGED <<writers, rerun, reordered, erigon, erigon_height, disk, tx,
                   how, stage, previous_stage, input, i, done, output>>

\* erigon_tx_cur.walk(Some(base_tx_id.encode())).take(body.tx_amount): the
\* next tx_amount entries of the source BlockTransaction from the seek on.
TakeTxs(txs, body) ==
    LET from == Seek(txs, EncodeU64(body.base_tx_id))
        upto == IF from + body.tx_amount - 1 <= Len(txs)
                THEN from + body.tx_amount - 1 ELSE Len(txs)
    IN  SubSeq(txs, from, upto)

\* The while-let loop: decode each body (an error ends execute), collect its
\* transactions, push it, and stop once accum_txs exceeds the threshold.
RECURSIVE BodiesTake(_, _, _, _, _)
BodiesTake(bodies, txs, w, accum, acc) ==
    IF w > Len(bodies)
    THEN [ok |-> TRUE, batch |-> acc, walker |-> w, accum_txs |-> accum]
    ELSE LET body == DecodeBody(ValueOf(bodies[w]))
         IN  IF body = None
             THEN [ok |-> FALSE, batch |-> acc, walker |-> w, accum_txs |-> accum]
             ELSE LET b == Unwrap(body)
                      acc2 == Append(acc, [key |-> KeyOf(bodies[w]), body |-> b,
                                           txs |-> TakeTxs(txs, b)])
                  IN  IF accum + b.tx_amount > BUFFERING_FACTOR
                      THEN [ok |-> TRUE, batch |-> acc2, walker |-> w + 1,
                            accum_txs |-> accum + b.tx_amount]
                      ELSE BodiesTake(bodies, txs, w + 1, accum + b.tx_amount, acc2)

BodiesExtract ==
    /\ pc = "extract"
    /\ Stages[stage] = ConvertBodies
    /\ LET r == BodiesTake(Source(BlockBody), Source(BlockTransaction), walker, 0, <<>>)
       IN  IF ~r.ok
           THEN /\ output' = Some(Failed(MalformedEntry))
                /\ pc' = "returned"
                /\ UNCHANGED <<batch, walker, accum_txs, converted, done>>
           ELSE /\ batch' = r.batch
                /\ walker' = r.walker
                /\ accum_txs' = r.accum_txs
                /\ converted' = [j \in 1..Len(r.batch) |-> None]
                /\ IF Len(r.batch) = 0
                   THEN pc' = "return" /\ done' = TRUE
                   ELSE pc' = "convert" /\ done' = done
                /\ output' = output
    /\ reordered' = FALSE
    /\ UNCHANGED chainvars
    /\ UNCHANGED <<writers, rerun, erigon, erigon_height, disk, tx, how,
                   stage, previous_stage, input, highest_block, i, elapsed>>

\* The re-encoding of the transactions of one body; None if one fails.
RECURSIVE ReencodeTxs(_)
ReencodeTxs(txs) ==
    IF Len(txs) = 0 THEN Some(<<>>)
    ELSE LET v == ReencodeTransaction(ValueOf(Head(txs)))
             rest == ReencodeTxs(Tail(txs))
         IN  IF v = None \/ rest = None THEN None
             ELSE Some(<<<<KeyOf(Head(txs)), Unwrap(v)>>>> \o Unwrap(rest))

\* The closure of the parallel map, applied to one batch entry.
BodiesConvertEntry(e) ==
    LET key == DecodeKey(BlockBody, e.key)
        txs == ReencodeTxs(e.txs)
    IN  IF key = None \/ txs = None THEN ConvertErr
        ELSE Converted(Some(Unwrap(key).number), EncodeKey(BlockBody, Unwrap(key)),
                       EncodeBody(e.body), Unwrap(txs))

BodiesConvert(j) ==
    /\ pc = "convert"
    /\ Stages[stage] = ConvertBodies
    /\ j \in 1..Len(batch)
    /\ converted[j] = None
    /\ converted' = [converted EXCEPT ![ResultSlot(converted, j)] =
                       Some(BodiesConvertEntry(batch[j]))]
    /\ reordered' = (reordered \/ Overtakes(converted, j))
    /\ IF \A k \in 1..Len(batch) : k = j \/ converted[k] # None
       THEN pc' = "drain" /\ batch' = <<>>
       ELSE pc' = "convert" /\ batch' = batch
    /\ UNCHANGED chainvars
    /\ UNCHANGED <<writers, rerun, erigon, erigon_height, disk, tx, how,
                   stage, previous_stage, input, highest_block, walker, i,
                   accum_txs, elapsed, done, output>>

\* for (index, tx) in txs { tx_cur.append((index, tx)).await?; }: the table
\* after the appends that succeed, and whether all of them did.
RECURSIVE AppendTxs(_, _)
AppendTxs(tbl, txs) ==
    IF Len(txs) = 0 THEN [ok |-> TRUE, table |-> tbl]
    ELSE IF CanAppend(tbl, KeyOf(Head(txs)))
         THEN AppendTxs(Append(tbl, Head(txs)), Tail(txs))
         ELSE [ok |-> FALSE, table |-> tbl]

\* Faulty variant: highest_block stays what it was.
BodiesHighestKept(hb, block_num) == hb

\* highest_block = block_num.
BodiesHighest(hb, block_num) == block_num

\* One turn of for res in converted.drain(..): res?, highest_block =
\* block_num, the append of the body and the appends of its transactions.
BodiesDrain ==
    /\ pc = "drain"
    /\ Stages[stage] = ConvertBodies
    /\ LET res == Unwrap(Head(converted))
       IN  IF ~res.ok
           THEN /\ output' = Some(Failed(MalformedEntry))
                /\ pc' = "returned"
                /\ UNCHANGED <<tx, highest_block, converted>>
           ELSE /\ highest_block' = BodiesHighest(highest_block, res.block_num)
                /\ IF ~CanAppend(tx.tables[BlockBody], res.key)
                   THEN /\ output' = Some(Failed(OutOfOrderAppend))
                        /\ pc' = "returned"
                        /\ UNCHANGED <<tx, converted>>
                   ELSE LET r == AppendTxs(tx.tables[BlockTransaction], res.txs)
                        IN  /\ tx' = [CursorAppend(tx, BlockBody, <<res.key, res.value>>)
                                     EXCEPT !.tables[BlockTransaction] = r.table]
                            /\ IF r.ok
                               THEN /\ converted' = Tail(converted)
                                    /\ pc' = IF Len(converted) = 1 THEN "flush" ELSE "drain"
                                    /\ output' = output
                               ELSE /\ output' = Some(Failed(OutOfOrderAppend))
                                    /\ pc' = "returned"
                                    /\ converted' = converted
    /\ UNCHANGED chainvars
    /\ UNCHANGED <<writers, rerun, reordered, erigon, erigon_height, disk,
                   how, stage, previous_stage, input, walker, i, batch,
                   accum_txs, elapsed, done>>

\* Faulty variant: the deadline counts as exceeded once it is reached.
DeadlineReached(t) == t >= FLUSH_DEADLINE

\* elapsed > Duration::from_secs(30).
DeadlineExceeded(t) == t > FLUSH_DEADLINE

\* let elapsed = now - started_at; if elapsed > Duration::from_secs(30)
\* { break false }.
BodiesFlush ==
    /\ pc = "flush"
    /\ Stages[stage] = ConvertBodies
    /\ elapsed' \in {t \in ElapsedSamples : t >= elapsed}
    /\ IF DeadlineExceeded(elapsed')
       THEN pc' = "return" /\ done' = FALSE
       ELSE pc' = "extract" /\ done' = done
    /\ UNCHANGED chainvars
    /\ UNCHANGED <<writers, rerun, reordered, erigon, erigon_height, disk, tx,
                   how, stage, previous_stage, input, highest_block, walker,
                   i, batch, converted, accum_txs, output>>

\* Ok(ExecOutput::Progress { stage_progress: highest_block, done,
\* must_commit: true }).
BodiesReturn ==
    /\ pc = "return"
    /\ Stages[stage] = ConvertBodies
    /\ output' = Some(Progress(Unwrap(highest_block), done, TRUE))
    /\ pc' = "returned"
    /\ UNCHANGED chainvars
    /\ UNCHANGED <<writers, rerun, reordered, erigon, erigon_height, disk, tx,
                   how, stage, previous_stage, input, highest_block, walker,
                   i, batch, converted, accum_txs, elapsed, done>>

\* Faulty variant: the process ends as a failed one.
ExitFailure == "error"

\* std::process::exit(0): how the process ends in TerminatingStage.
ExitStatus == "exit0"

\* --------------------------------------------------------- TerminatingStage
\* std::process::exit(0): the process ends, the open writer is dropped
\* uncommitted and no ExecOutput reaches the engine.
TerminatingExecute ==
    /\ pc = "begin"
    /\ Stages[stage] = TerminatingStage
    /\ pc' = "down"
    /\ how' = ExitStatus
    /\ tx' = disk
    /\ writers' = 0
    /\ UNCHANGED chainvars
    /\ UNCHANGED <<rerun, reordered, erigon, erigon_height, disk, stage,
                   previous_stage, input, highest_block, walker, i, batch,
                   converted, accum_txs, elapsed, done, output>>

\* -------------------------------------------------------------- glue stages
\* execute of BlockHashes, SenderRecovery or Execution: the stage advances
\* to the progress of the stage before it and says whether the engine must
\* commit (c).
GlueExecute(c) ==
    /\ pc = "begin"
    /\ Stages[stage] \in GlueStages
    /\ LET reach == IF IsSome(input.previous_stage)
                    THEN Unwrap(input.previous_stage).progress ELSE 0
           p == IF UnwrapOr(input.stage_progress, 0) > reach
                THEN UnwrapOr(input.stage_progress, 0) ELSE reach
       IN  output' = Some(Progress(p, TRUE, c))
    /\ pc' = "returned"
    /\ UNCHANGED chainvars
    /\ UNCHANGED <<writers, rerun, reordered, erigon, erigon_height, disk, tx,
                   how, stage, previous_stage, input, highest_block, walker,
                   i, batch, converted, accum_txs, elapsed, done>>

\* execute of Execution asks for an unwind instead.
ExecutionUnwind ==
    /\ pc = "begin"
    /\ Stages[stage] = Execution
    /\ \E h \in 0..MaxBlock : output' = Some(Unwind(h))
    /\ pc' = "returned"
    /\ UNCHANGED chainvars
    /\ UNCHANGED <<writers, rerun, reordered, erigon, erigon_height, disk, tx,
                   how, stage, previous_stage, input, highest_block, walker,
                   i, batch, converted, accum_txs, elapsed, done>>

\* ------------------------------------------------------- staged sync engine
\* The values the variables of an execute hold between invocations.
LocalsReset ==
    /\ input = [previous_stage |-> None, stage_progress |-> None]
    /\ highest_block = None
    /\ walker = 1
    /\ i = 0
    /\ batch = <<>>
    /\ converted = <<>>
    /\ accum_txs = 0
    /\ elapsed = 0
    /\ done = TRUE
    /\ reordered = FALSE

\* The same, of the next state.
ResetLocals ==
    /\ input' = [previous_stage |-> None, stage_progress |-> None]
    /\ highest_block' = None
    /\ walker' = 1
    /\ i' = 0
    /\ batch' = <<>>
    /\ converted' = <<>>
    /\ accum_txs' = 0
    /\ elapsed' = 0
    /\ done' = TRUE
    /\ reordered' = FALSE

\* Steps 2a/2b of the forward loop: read progress[S] and invoke execute.
EngineInvoke ==
    /\ pc = "engine"
    /\ input' = [previous_stage |-> previous_stage,
                 stage_progress |-> tx.progress[Stages[stage]]]
    /\ output' = None
    /\ pc' = "begin"
    /\ UNCHANGED chainvars
    /\ UNCHANGED <<writers, rerun, reordered, erigon, erigon_height, disk, tx,
                   how, stage, previous_stage, highest_block, walker, i,
                   batch, converted, accum_txs, elapsed, done>>

\* Faulty variant: the returned progress is not recorded.
SaveProgressDropped(db, S, p) == db

\* Step 2c: progress[S] is updated in the writer.
SaveProgress(db, S, p) == [db EXCEPT !.progress[S] = Some(p)]

\* Steps 2c-2e: record the returned stage_progress in the writer, commit
\* and reopen the writer if must_commit, then re-invoke the stage (done =
\* false) or advance to the next one.
EngineProgress ==
    /\ pc = "returned"
    /\ IsProgress(output)
    /\ LET out == Unwrap(output)
           saved == SaveProgress(tx, Stages[stage], out.stage_progress)
       IN  /\ tx' = saved
           /\ disk' = IF out.must_commit THEN saved ELSE disk
           /\ IF out.done
              THEN /\ previous_stage' = Some([id |-> Stages[stage],
                                              progress |-> out.stage_progress])
                   /\ stage' = stage + 1
              ELSE UNCHANGED <<previous_stage, stage>>
    /\ pc' = "engine"
    /\ ResetLocals
    /\ UNCHANGED chainvars
    /\ UNCHANGED <<writers, rerun, erigon, erigon_height, how, output>>

\* Any error from execute aborts the run; the writer is discarded.
EngineAbort ==
    /\ pc = "returned"
    /\ IsError(output)
    /\ tx' = disk
    /\ pc' = "down"
    /\ how' = "error"
    /\ writers' = 0
    /\ ResetLocals
    /\ UNCHANGED chainvars
    /\ UNCHANGED <<rerun, erigon, erigon_height, disk, stage, previous_stage,
                   output>>

\* A stage has returned Unwind: the engine turns to the last stage and
\* goes through the stages in reverse registration order.
EngineUnwindBegin ==
    /\ pc = "returned"
    /\ IsUnwind(output)
    /\ stage' = Len(Stages)
    /\ previous_stage' = None
    /\ pc' = "unwind"
    /\ ResetLocals
    /\ UNCHANGED chainvars
    /\ UNCHANGED <<writers, rerun, erigon, erigon_height, disk, tx, how,
                   output>>

\* unwind of a stage: todo!() in the four Convert stages, Ok(()) in
\* TerminatingStage; the glue stages unwind as their contract says.
UnwindPanics(S) == S \in TableStages \cup {ConvertBodies}

\* One stage of the unwind pass: a stage whose progress is above unwind_to
\* is unwound, its progress set to unwind_to and the writer committed; a
\* panic in unwind takes the process down with the writer lost.  After
\* the first registered stage the forward loop resumes.
EngineUnwindStage ==
    /\ pc = "unwind"
    /\ LET S == Stages[stage]
           h == Unwrap(output).unwind_to
       IN  IF UnwrapOr(tx.progress[S], 0) > h
           THEN IF UnwindPanics(S)
                THEN /\ pc' = "down"
                     /\ how' = "panic"
                     /\ tx' = disk
                     /\ writers' = 0
                     /\ UNCHANGED <<disk, stage>>
                ELSE /\ tx' = [tx EXCEPT !.progress[S] = Some(h)]
                     /\ disk' = tx'
                     /\ UNCHANGED <<how, writers>>
                     /\ IF stage = 1
                        THEN pc' = "engine" /\ stage' = 1
                        ELSE pc' = "unwind" /\ stage' = stage - 1
           ELSE /\ UNCHANGED <<tx, disk, how, writers>>
                /\ IF stage = 1
                   THEN pc' = "engine" /\ stage' = 1
                   ELSE pc' = "unwind" /\ stage' = stage - 1
    /\ UNCHANGED chainvars
    /\ UNCHANGED <<rerun, reordered, erigon, erigon_height, previous_stage,
                   input, highest_block, walker, i, batch, converted,
                   accum_txs, elapsed, done, output>>

\* ------------------------------------------------------------- environment
\* The process is killed: whatever the writer holds uncommitted is lost.
Crash ==
    /\ pc # "down"
    /\ pc' = "down"
    /\ how' = "crash"
    /\ writers' = 0
    /\ tx' = disk
    /\ output' = None
    /\ stage' = 1
    /\ previous_stage' = None
    /\ ResetLocals
    /\ UNCHANGED chainvars
    /\ UNCHANGED <<rerun, erigon, erigon_height, disk>>

\* execute_with_erigon is started (again): the source, which may have
\* imported more blocks meanwhile, is opened read-only, the target is
\* opened and db.begin_mutable() opens the writer of the genesis block.
Start ==
    /\ pc = "down"
    /\ erigon_height' \in erigon_height..MaxBlock
    /\ tx' = disk
    /\ writers' = writers + 1
    /\ stage' = 1
    /\ previous_stage' = None
    /\ output' = None
    /\ pc' = "genesis"
    /\ how' = "running"
    /\ rerun' = (how = "exit0" /\ erigon_height' = erigon_height)
    /\ ResetLocals
    /\ UNCHANGED chainvars
    /\ UNCHANGED <<erigon, disk>>

\* Values of the source tables: well-formed ones, and one that the value
\* codec of the table rejects.
GoodValue(T, n, h) ==
    IF T = CanonicalHeader THEN BigEndian(h, KECCAK_LENGTH) ELSE RlpEncode(n + h)

BadValue(T) == IF T = CanonicalHeader THEN BigEndian(1, KECCAK_LENGTH + 1) ELSE <<0>>

\* The key of block n with hash h in table T.
KeyFor(T, n, h) == IF HashKeyed(T) THEN EncodeHeaderKey(n, h) ELSE EncodeU64(n)

\* The target database as new_database creates it: nothing in it.
Fresh ==
    [tables |-> [T \in Tables |-> <<>>],
     progress |-> [S \in StageIds |-> None]]

\* The target database after initialize_genesis: block 0 in every
\* block-keyed table, no transaction, no recorded progress.
Genesis ==
    [tables |-> [T \in Tables |->
                   IF T = BlockTransaction THEN <<>>
                   ELSE IF T = BlockBody
                   THEN <<<<KeyFor(T, 0, 1), EncodeBody([base_tx_id |-> 0, tx_amount |-> 0])>>>>
                   ELSE <<<<KeyFor(T, 0, 1), GoodValue(T, 0, 1)>>>>],
     progress |-> [S \in StageIds |-> None]]

\* initialize_genesis: writes the genesis block and returns true iff the
\* database holds no genesis block yet.
GenesisMissing(db) == db.tables[Header] = <<>>

\* Faulty variant: the writer of the genesis block outlives its block.
GenesisWriterKept(w) == w

\* The end of the block around txn: the writer is gone, committed or
\* dropped.
GenesisWriterClosed(w) == w - 1

\* if initialize_genesis(&txn, MAINNET).await? { txn.commit().await?; } and
\* the end of the block: a genesis block written is committed, a writer
\* that wrote nothing is dropped.
GenesisInit ==
    /\ pc = "genesis"
    /\ tx' = IF GenesisMissing(tx) THEN Genesis ELSE disk
    /\ disk' = tx'
    /\ writers' = GenesisWriterClosed(writers)
    /\ pc' = "run"
    /\ UNCHANGED chainvars
    /\ UNCHANGED <<rerun, reordered, erigon, erigon_height, how, stage,
                   previous_stage, input, highest_block, walker, i, batch,
                   converted, accum_txs, elapsed, done, output>>

\* staged_sync.run(&db): the engine opens its writer and turns to the
\* first stage.
RunBegin ==
    /\ pc = "run"
    /\ writers' = writers + 1
    /\ tx' = disk
    /\ pc' = "engine"
    /\ UNCHANGED chainvars
    /\ UNCHANGED <<rerun, reordered, erigon, erigon_height, disk, how, stage,
                   previous_stage, input, highest_block, walker, i, batch,
                   converted, accum_txs, elapsed, done, output>>

\* ------------------------------------------------------ chain specification
\* No chain specification is being looked at.
ChainIdle ==
    /\ ron = None
    /\ chain_spec = None
    /\ call = None
    /\ consensus = None

\* The fields of Upgrades.
UpgradeNames ==
    {"homestead", "tangerine", "spurious", "byzantium", "constantinople",
     "petersburg", "istanbul", "berlin", "london"}

\* BTreeMap / HashMap: a function from the keys present to their values.
EmptyMap == [k \in {} |-> 0]

\* insert: the value under k is v, whatever it was.
MapInsert(m, k, v) == [x \in DOMAIN m \cup {k} |-> IF x = k THEN v ELSE m[x]]

\* A map read from its declared entries (key, value), inserted in turn.
RECURSIVE MapFrom(_, _)
MapFrom(m, entries) ==
    IF Len(entries) = 0 THEN m
    ELSE MapFrom(MapInsert(m, Head(entries)[1], Head(entries)[2]), Tail(entries))

MapOf(entries) == MapFrom(EmptyMap, entries)

\* A map of maps read from its declared entries (key, entries).
MapOfMaps(entries) ==
    MapOf([j \in 1..Len(entries) |-> <<entries[j][1], MapOf(entries[j][2])>>])

\* Faulty variant: the period is read as seconds.
PeriodAsSeconds(v) == [millis |-> v * 1000]

\* deserialize_period_as_duration, visit_u64: Duration::from_millis(v).
PeriodAsDuration(v) == [millis |-> v]

\* serde(default, with = unwrap_or_skip): a field that is listed is Some
\* of its value, one that is omitted is None.
UnwrapOrSkip(listed, f) == IF f \in DOMAIN listed THEN Some(listed[f]) ELSE None

\* Deserialize for Engine.
DeserializeEngine(e) ==
    CASE e.kind = "Clique" ->
           [kind |-> "Clique", period |-> PeriodAsDuration(e.period),
            epoch |-> e.epoch]
      [] e.kind = "Ethash" ->
           [kind |-> "Ethash",
            duration_limit |-> e.duration_limit,
            block_reward |-> MapOf(e.block_reward),
            homestead_formula |-> UnwrapOrSkip(e.listed, "homestead_formula"),
            byzantium_adj_factor |-> UnwrapOrSkip(e.listed, "byzantium_adj_factor"),
            difficulty_bomb |->
                IF "difficulty_bomb" \in DOMAIN e.listed
                THEN Some([delays |-> MapOf(e.listed["difficulty_bomb"])])
                ELSE None]
      [] OTHER -> [kind |-> "NoProof"]

\* Deserialize for ChainSpec.
DeserializeChainSpec(r) ==
    [name |-> r.name,
     engine |-> DeserializeEngine(r.engine),
     upgrades |-> [f \in UpgradeNames |-> UnwrapOrSkip(r.upgrades, f)],
     params |-> r.params,
     genesis |-> r.genesis,
     contracts |-> MapOfMaps(r.contracts),
     balances |-> MapOfMaps(r.balances)]

\* ron::from_str::<ChainSpec>(..).unwrap(), as in MAINNET_CONFIG and
\* RINKEBY_CONFIG.
Deserialize ==
    /\ ron # None
    /\ chain_spec = None
    /\ chain_spec' = Some(DeserializeChainSpec(Unwrap(ron)))
    /\ UNCHANGED <<ron, call, consensus>>
    /\ UNCHANGED importvars

\* The keys of a BTreeMap as iter() and iter().rev() yield them.
RECURSIVE Ascending(_)
Ascending(S) ==
    IF S = {} THEN <<>>
    ELSE LET x == CHOOSE y \in S : \A z \in S : y <= z
         IN  <<x>> \o Ascending(S \ {x})

RECURSIVE Descending(_)
Descending(S) ==
    IF S = {} THEN <<>>
    ELSE LET x == CHOOSE y \in S : \A z \in S : z <= y
         IN  <<x>> \o Descending(S \ {x})

\* for (after, v) in m.iter().rev() { if block_number >= after { found = v;
\* break } }: the value found, or the one the search started with.
RECURSIVE FirstReached(_, _, _, _)
FirstReached(m, keys, block_number, start) ==
    IF Len(keys) = 0 THEN start
    ELSE IF block_number >= Head(keys) THEN m[Head(keys)]
    ELSE FirstReached(m, Tail(keys), block_number, start)

\* Engine::collect_params_for_block; NoProof is todo!(), which panics.
Panic == "panic"

CollectParamsForBlock(engine, block_number) ==
    CASE engine.kind = "Clique" ->
           [kind |-> "Clique", period |-> engine.period, epoch |-> engine.epoch]
      [] engine.kind = "Ethash" ->
           [kind |-> "Ethash",
            duration_limit |-> engine.duration_limit,
            block_reward |->
                FirstReached(engine.block_reward,
                             Descending(DOMAIN engine.block_reward), block_number, 0),
            homestead_formula |->
                IF IsSome(engine.homestead_formula)
                THEN block_number >= Unwrap(engine.homestead_formula) ELSE FALSE,
            byzantium_adj_factor |->
                IF IsSome(engine.byzantium_adj_factor)
                THEN block_number >= Unwrap(engine.byzantium_adj_factor) ELSE FALSE,
            difficulty_bomb |->
                IF IsSome(engine.difficulty_bomb)
                THEN LET delays == Unwrap(engine.difficulty_bomb).delays
                     IN  Some([delay_to |->
                                 FirstReached(delays, Descending(DOMAIN delays),
                                              block_number, 0)])
                ELSE None]
      [] OTHER -> Panic

\* Faulty variant: the forks are tried oldest first.
ForkOrderOldestFirst ==
    << <<"homestead", "Homestead">>, <<"tangerine", "Tangerine">>,
       <<"spurious", "Spurious">>, <<"byzantium", "Byzantium">>,
       <<"constantinople", "Constantinople">>, <<"petersburg", "Petersburg">>,
       <<"istanbul", "Istanbul">>, <<"berlin", "Berlin">>,
       <<"london", "London">> >>

\* The array collect_block_spec goes through: (upgrade, Revision).
ForkOrder ==
    << <<"london", "London">>, <<"berlin", "Berlin">>,
       <<"istanbul", "Istanbul">>, <<"petersburg", "Petersburg">>,
       <<"constantinople", "Constantinople">>, <<"byzantium", "Byzantium">>,
       <<"spurious", "Spurious">>, <<"tangerine", "Tangerine">>,
       <<"homestead", "Homestead">> >>

\* The for loop of collect_block_spec from the k-th fork on: revision and
\* is_transition_block.
RECURSIVE SelectRevision(_, _, _)
SelectRevision(upgrades, block_number, k) ==
    IF k > Len(ForkOrder)
    THEN [revision |-> "Frontier", is_transition_block |-> FALSE]
    ELSE LET fork == upgrades[ForkOrder[k][1]]
         IN  IF IsSome(fork) /\ block_number >= Unwrap(fork)
             THEN [revision |-> ForkOrder[k][2],
                   is_transition_block |-> (block_number = Unwrap(fork))]
             ELSE SelectRevision(upgrades, block_number, k + 1)

\* Faulty variant: an address already present keeps its contract.
InsertMissing(acc, contracts) ==
    [a \in DOMAIN acc \cup DOMAIN contracts |->
        IF a \in DOMAIN acc THEN acc[a] ELSE contracts[a]]

\* for (addr, contract) in contracts { acc.insert(*addr, *contract); }.
InsertAll(acc, contracts) ==
    [a \in DOMAIN acc \cup DOMAIN contracts |->
        IF a \in DOMAIN contracts THEN contracts[a] ELSE acc[a]]

\* self.contracts.iter().fold(HashMap::new(), ..) over the keys left.
RECURSIVE FoldContracts(_, _, _, _)
FoldContracts(acc, contracts, keys, block_number) ==
    IF Len(keys) = 0 THEN acc
    ELSE FoldContracts(IF block_number >= Head(keys)
                       THEN InsertAll(acc, contracts[Head(keys)]) ELSE acc,
                       contracts, Tail(keys), block_number)

\* ChainSpec::collect_block_spec: the BlockSpec, or the panic of the
\* engine parameters.
BlockSpecOf(cs, block_number) ==
    LET engine == CollectParamsForBlock(cs.engine, block_number)
        rev == SelectRevision(cs.upgrades, block_number, 1)
    IN  IF cs.engine.kind = "NoProof" THEN Panic
        ELSE [engine |-> engine,
              revision |-> rev.revision,
              is_transition_block |-> rev.is_transition_block,
              params |-> cs.params,
              system_contracts |->
                  FoldContracts(EmptyMap, cs.contracts,
                                Ascending(DOMAIN cs.contracts), block_number),
              balance_transfers |->
                  IF block_number \in DOMAIN cs.balances
                  THEN cs.balances[block_number] ELSE EmptyMap]

\* Faulty variant: block 0 stays among the forks.
GenesisKept(forks) == forks

\* forks.remove(&BlockNumber(0)).
GenesisRemoved(forks) == forks \ {0}

\* ChainSpec::gather_forks.
GatherForksOf(cs) ==
    LET upgrades == {Unwrap(cs.upgrades[f]) : f \in {g \in UpgradeNames : IsSome(cs.upgrades[g])}}
        delays == IF cs.engine.kind = "Ethash" /\ IsSome(cs.engine.difficulty_bomb)
                  THEN DOMAIN Unwrap(cs.engine.difficulty_bomb).delays ELSE {}
    IN  GenesisRemoved(upgrades \cup DOMAIN cs.contracts \cup DOMAIN cs.balances
                       \cup delays)

\* Faulty variant: the homestead formula starts one block late.
BlockParamsLate(ethash, number) ==
    [CollectParamsForBlock(ethash, number) EXCEPT
        !.homestead_formula = IF IsSome(ethash.homestead_formula)
                              THEN number > Unwrap(ethash.homestead_formula)
                              ELSE FALSE]

\* Ethash::verify_header: block_params of the header numbered number.
BlockParams(ethash, number) ==
    [kind |-> "Ethash",
     duration_limit |-> ethash.duration_limit,
     block_reward |->
         FirstReached(ethash.block_reward, Descending(DOMAIN ethash.block_reward),
                      number, 0),
     homestead_formula |->
         IF IsSome(ethash.homestead_formula)
         THEN number >= Unwrap(ethash.homestead_formula) ELSE FALSE,
     byzantium_adj_factor |->
         IF IsSome(ethash.byzantium_adj_factor)
         THEN number >= Unwrap(ethash.byzantium_adj_factor) ELSE FALSE,
     difficulty_bomb |->
         IF IsSome(ethash.difficulty_bomb)
         THEN LET delays == Unwrap(ethash.difficulty_bomb).delays
              IN  Some([delay_to |->
                          FirstReached(delays, Descending(DOMAIN delays), number, 0)])
         ELSE None]

\* A call of collect_block_spec(block_number).
CollectBlockSpec(block_number) ==
    /\ chain_spec # None
    /\ call' = Some([fn |-> "collect_block_spec", n |-> block_number,
                     panicked |-> (Unwrap(chain_spec).engine.kind = "NoProof"),
                     ret |-> BlockSpecOf(Unwrap(chain_spec), block_number)])
    /\ UNCHANGED <<ron, chain_spec, consensus>>
    /\ UNCHANGED importvars

\* A call of gather_forks().
GatherForks ==
    /\ chain_spec # None
    /\ call' = Some([fn |-> "gather_forks", n |-> 0, panicked |-> FALSE,
                     ret |-> GatherForksOf(Unwrap(chain_spec))])
    /\ UNCHANGED <<ron, chain_spec, consensus>>
    /\ UNCHANGED importvars

\* The ConsensusParams of an engine: the fields init_consensus takes
\* apart.
ConsensusParamsOf(engine) ==
    CASE engine.kind = "Clique" ->
           [kind |-> "Clique", period |-> engine.period, epoch |-> engine.epoch]
      [] engine.kind = "Ethash" ->
           [kind |-> "Ethash",
            duration_limit |-> engine.duration_limit,
            block_reward |-> engine.block_reward,
            homestead_formula |-> engine.homestead_formula,
            byzantium_adj_factor |-> engine.byzantium_adj_factor,
            difficulty_bomb |-> engine.difficulty_bomb]
      [] OTHER -> [kind |-> "NoProof"]

\* anyhow::Result: Ok(v) or Err(e).
Ok(v) == [ok |-> TRUE, value |-> v]
Err(e) == [ok |-> FALSE, error |-> e]

\* Faulty variant: the two flag thresholds change places.
InitConsensusSwapped(params) ==
    CASE params.kind = "Clique" -> Err("Clique is not yet implemented")
      [] params.kind = "Ethash" ->
           Ok([kind |-> "Ethash",
               duration_limit |-> params.duration_limit,
               block_reward |-> params.block_reward,
               homestead_formula |-> params.byzantium_adj_factor,
               byzantium_adj_factor |-> params.homestead_formula,
               difficulty_bomb |-> params.difficulty_bomb])
      [] OTHER -> Ok([kind |-> "NoProof"])

\* init_consensus(params).
InitConsensusOf(params) ==
    CASE params.kind = "Clique" -> Err("Clique is not yet implemented")
      [] params.kind = "Ethash" ->
           Ok([kind |-> "Ethash",
               duration_limit |-> params.duration_limit,
               block_reward |-> params.block_reward,
               homestead_formula |-> params.homestead_formula,
               byzantium_adj_factor |-> params.byzantium_adj_factor,
               difficulty_bomb |-> params.difficulty_bomb])
      [] OTHER -> Ok([kind |-> "NoProof"])

\* A call of init_consensus with the parameters of the chain
\* specification's engine.
InitConsensus ==
    /\ chain_spec # None
    /\ consensus = None
    /\ consensus' = Some(InitConsensusOf(ConsensusParamsOf(Unwrap(chain_spec).engine)))
    /\ UNCHANGED <<ron, chain_spec, call>>
    /\ UNCHANGED importvars

\* The ommers hash of a block without ommers.
EMPTY_LIST_HASH == "empty_list_hash"

\* Faulty variant: the header's own ommers are looked at.
HeaderHasUncles(header, parent) == header.ommers_hash # EMPTY_LIST_HASH

\* let parent_has_uncles = parent.ommers_hash != EMPTY_LIST_HASH.
ParentHasUncles(header, parent) == parent.ommers_hash # EMPTY_LIST_HASH

\* 2^n.
RECURSIVE Pow2(_)
Pow2(n) == IF n = 0 THEN 1 ELSE 2 * Pow2(n - 1)

\* difficulty::canonical_difficulty: the parent's difficulty adjusted by a
\* 2048th of it per step, the step following the byzantium, homestead or
\* frontier rule that the block parameters select, plus the difficulty
\* bomb, and never below the minimum difficulty. Block numbers count in
\* bomb periods.
CanonicalDifficulty(block_number, block_timestamp, parent_difficulty, parent_timestamp, parent_has_uncles, config) ==
    LET x == parent_difficulty \div 2048
        late == block_timestamp - parent_timestamp
        steps == IF config.byzantium_adj_factor
                 THEN (IF parent_has_uncles THEN 2 ELSE 1) - (late \div 9)
                 ELSE IF config.homestead_formula
                 THEN 1 - (late \div 10)
                 ELSE IF late < config.duration_limit THEN 1 ELSE 0 - 1
        adjusted == parent_difficulty + (IF steps < 0 - 99 THEN 0 - 99 ELSE steps) * x
        n == IF config.difficulty_bomb = None THEN 0
             ELSE IF block_number > Unwrap(config.difficulty_bomb).delay_to
             THEN block_number - Unwrap(config.difficulty_bomb).delay_to
             ELSE 0
        bombed == IF n >= 2 THEN adjusted + Pow2(n - 2) ELSE adjusted
    IN  IF bombed < 131072 THEN 131072 ELSE bombed

\* Ethash::verify_header: Ok(()) or WrongDifficulty.
VerifyHeaderOf(ethash, header, parent) ==
    LET block_params == BlockParams(ethash, header.number)
        parent_has_uncles == ParentHasUncles(header, parent)
        difficulty == CanonicalDifficulty(header.number, header.timestamp,
                                          parent.difficulty, parent.timestamp,
                                          parent_has_uncles, block_params)
    IN  IF difficulty # header.difficulty
        THEN Err([kind |-> "WrongDifficulty", expected |-> difficulty,
                  got |-> header.difficulty])
        ELSE Ok("unit")

\* verify_header of the Ethash verifier init_consensus returned, for a
\* header and its parent.
VerifyHeader(header, parent) ==
    /\ consensus # None
    /\ Unwrap(consensus).ok
    /\ Unwrap(consensus).value.kind = "Ethash"
    /\ call' = Some([fn |-> "verify_header", n |-> header.number,
                     panicked |-> FALSE,
                     ret |-> BlockParams(Unwrap(consensus).value, header.number),
                     header |-> header, parent |-> parent,
                     verdict |-> VerifyHeaderOf(Unwrap(consensus).value, header, parent)])
    /\ UNCHANGED <<ron, chain_spec, consensus>>
    /\ UNCHANGED importvars

\* verify_header of the NoProof verifier init_consensus returned.
NoProofVerifyHeader(header, parent) ==
    /\ consensus # None
    /\ Unwrap(consensus).ok
    /\ Unwrap(consensus).value.kind = "NoProof"
    /\ call' = Some([fn |-> "noproof_verify_header", n |-> header.number,
                     panicked |-> FALSE, header |-> header, parent |-> parent,
                     verdict |-> Ok("unit")])
    /\ UNCHANGED <<ron, chain_spec, consensus>>
    /\ UNCHANGED importvars

\* ----------------------------------------------------------- initial state
\* A source table of a convert_table stage: the blocks 0..top, a second
\* entry (hash 2) at height fork when the table is keyed by hash too, and a
\* malformed value at height bad (bad = 0: none).
RECURSIVE ChainTable(_, _, _, _, _)
ChainTable(T, n, top, fork, bad) ==
    IF n > top THEN <<>>
    ELSE <<<<KeyFor(T, n, 1), IF n = bad /\ n > 0 THEN BadValue(T) ELSE GoodValue(T, n, 1)>>>>
         \o (IF HashKeyed(T) /\ n = fork
             THEN <<<<KeyFor(T, n, 2), GoodValue(T, n, 2)>>>> ELSE <<>>)
         \o ChainTable(T, n + 1, top, fork, bad)

\* A source BlockBody table from a list of bodies (n, h, base_tx_id,
\* tx_amount, ok), given in key order.
RECURSIVE BodyTable(_)
BodyTable(bs) ==
    IF Len(bs) = 0 THEN <<>>
    ELSE LET b == Head(bs)
         IN  <<<<EncodeHeaderKey(b.n, b.h),
                 IF b.ok THEN EncodeBody([base_tx_id |-> b.base, tx_amount |-> b.amount])
                 ELSE <<193>>>>>> \o BodyTable(Tail(bs))

\* A source BlockTransaction table: the ids of a set, the one in bad
\* carrying a malformed transaction.
RECURSIVE TxTable(_, _, _)
TxTable(id, ids, bad) ==
    IF id > MaxTxId THEN <<>>
    ELSE (IF id \in ids
          THEN <<<<EncodeU64(id), IF id \in bad THEN <<0>> ELSE RlpEncode(id + 1)>>>>
          ELSE <<>>) \o TxTable(id + 1, ids, bad)

InitImporter(hdr, td, can, bodies, txs, h) ==
    /\ erigon = [T \in Tables |->
                   CASE T = Header -> hdr
                     [] T = HeadersTotalDifficulty -> td
                     [] T = CanonicalHeader -> can
                     [] T = BlockBody -> bodies
                     [] OTHER -> txs]
    /\ erigon_height = h
    /\ disk = Fresh
    /\ tx = Fresh
    /\ pc = "down"
    /\ how = "init"
    /\ stage = 1
    /\ previous_stage = None
    /\ output = None
    /\ rerun = FALSE
    /\ writers = 0
    /\ LocalsReset

InitWith(hdr, td, can, bodies, txs, h) ==
    InitImporter(hdr, td, can, bodies, txs, h) /\ ChainIdle

\* A source table that holds block 0 only.
GenesisOnly(T) == ChainTable(T, 0, 0, MaxBlock + 1, 0)

GenesisBody == [n |-> 0, h |-> 1, base |-> 0, amount |-> 0, ok |-> TRUE]

AllTxs == TxTable(0, 0..MaxTxId, {})

\* Source tables of different heights, all of them imported already.
InitHeights ==
    \E th \in 0..MaxBlock, tt \in 0..MaxBlock, tc \in 0..MaxBlock :
        InitWith(ChainTable(Header, 0, th, MaxBlock + 1, 0),
                 ChainTable(HeadersTotalDifficulty, 0, tt, MaxBlock + 1, 0),
                 ChainTable(CanonicalHeader, 0, tc, MaxBlock + 1, 0),
                 BodyTable(<<GenesisBody>>), AllTxs, MaxBlock)

\* One table of a convert_table stage with a fork and/or a malformed value,
\* imported by the source block after block.
InitTables ==
    \E T \in {Header, HeadersTotalDifficulty, CanonicalHeader},
       fork \in 1..(MaxBlock + 1), bad \in 0..MaxBlock :
        LET tbl(U) == IF U = T THEN ChainTable(U, 0, MaxBlock, fork, bad)
                      ELSE GenesisOnly(U)
        IN  InitWith(tbl(Header), tbl(HeadersTotalDifficulty), tbl(CanonicalHeader),
                     BodyTable(<<GenesisBody>>), AllTxs, 0)

\* The bodies of the source: block 0, two bodies at height 1 and one at each
\* height above, with every choice of tx_amount that the transaction ids
\* allow.
BodyKeys ==
    <<[n |-> 1, h |-> 1], [n |-> 1, h |-> 2]>>
    \o [n \in 1..(MaxBlock - 1) |-> [n |-> n + 1, h |-> 1]]

RECURSIVE SumTo(_, _)
SumTo(f, n) == IF n = 0 THEN 0 ELSE f[n] + SumTo(f, n - 1)

Amounts ==
    {a \in [1..Len(BodyKeys) -> 0..(BUFFERING_FACTOR + 1)] :
        SumTo(a, Len(BodyKeys)) <= MaxTxId + 1}

\* Bodies with the amounts a; base_tx_id runs on from body to body in key
\* order, or (rev) from the last body to the first; body number bad (0:
\* none) is malformed.
Bodies(a, rev, bad) ==
    LET n == Len(BodyKeys)
        base(j) == IF rev THEN SumTo(a, n) - SumTo(a, j) ELSE SumTo(a, j - 1)
    IN  <<GenesisBody>>
        \o [j \in 1..n |-> [n |-> BodyKeys[j].n, h |-> BodyKeys[j].h,
                            base |-> base(j), amount |-> a[j], ok |-> j # bad]]

\* The sources that differ in BlockBody and BlockTransaction: transaction
\* ids may be missing from the source or carry a malformed transaction.
InitBodies ==
    \E a \in Amounts, rev \in BOOLEAN, bad \in 0..Len(BodyKeys),
       missing \in {{}} \cup {{t} : t \in 0..MaxTxId},
       badtx \in {{}} \cup {{t} : t \in 0..MaxTxId} :
        /\ (IF rev THEN 1 ELSE 0) + (IF bad # 0 THEN 1 ELSE 0)
             + Cardinality(missing) + Cardinality(badtx) <= 1
        /\ InitWith(GenesisOnly(Header), GenesisOnly(HeadersTotalDifficulty),
                    GenesisOnly(CanonicalHeader), BodyTable(Bodies(a, rev, bad)),
                    TxTable(0, (0..MaxTxId) \ missing, badtx), 0)

Init == InitHeights \/ InitTables \/ InitBodies

Next ==
    \/ Start
    \/ GenesisInit
    \/ RunBegin
    \/ EngineInvoke
    \/ TableBegin
    \/ TableExtract
    \/ \E j \in 1..BUFFERING_FACTOR : TableConvert(j)
    \/ TableDrain
    \/ TableReturn
    \/ BodiesBegin
    \/ BodiesExtract
    \/ \E j \in 1..(MaxBlock + 1) : BodiesConvert(j)
    \/ BodiesDrain
    \/ BodiesFlush
    \/ BodiesReturn
    \/ GlueExecute(FALSE)
    \/ TerminatingExecute
    \/ EngineProgress
    \/ EngineAbort
    \/ Crash

Spec == Init /\ [][Next]_vars

\* The engine over one short chain (block 1 in every table, a body with
\* more transactions than the batch threshold, HeadersTotalDifficulty
\* malformed or not), with glue stages that may or may not ask for a commit
\* and an Execution that may ask for an unwind.
InitEngine ==
    \E bad \in 0..1 :
        InitWith(ChainTable(Header, 0, 1, MaxBlock + 1, 0),
                 ChainTable(HeadersTotalDifficulty, 0, 1, MaxBlock + 1, bad),
                 ChainTable(CanonicalHeader, 0, 1, MaxBlock + 1, 0),
                 BodyTable(<<GenesisBody,
                             [n |-> 1, h |-> 1, base |-> 0,
                              amount |-> BUFFERING_FACTOR + 1, ok |-> TRUE]>>),
                 AllTxs, 1)

NextEngine ==
    \/ Next
    \/ GlueExecute(TRUE)
    \/ ExecutionUnwind
    \/ EngineUnwindBegin
    \/ EngineUnwindStage

SpecEngine == InitEngine /\ [][NextEngine]_vars

\* The steps of the process itself: every action but the kill and the
\* start, which are the environment's.
Run ==
    \/ GenesisInit
    \/ RunBegin
    \/ EngineInvoke
    \/ TableBegin
    \/ TableExtract
    \/ \E j \in 1..BUFFERING_FACTOR : TableConvert(j)
    \/ TableDrain
    \/ TableReturn
    \/ BodiesBegin
    \/ BodiesExtract
    \/ \E j \in 1..(MaxBlock + 1) : BodiesConvert(j)
    \/ BodiesDrain
    \/ BodiesFlush
    \/ BodiesReturn
    \/ GlueExecute(FALSE)
    \/ TerminatingExecute
    \/ EngineProgress
    \/ EngineAbort

\* Two bodies above genesis, the first with more transactions than the
\* batch threshold, all of them in the source from the start.
InitTwoBodies ==
    InitWith(GenesisOnly(Header), GenesisOnly(HeadersTotalDifficulty),
             GenesisOnly(CanonicalHeader),
             BodyTable(<<GenesisBody,
                         [n |-> 1, h |-> 1, base |-> 0,
                          amount |-> BUFFERING_FACTOR + 1, ok |-> TRUE],
                         [n |-> 2, h |-> 1, base |-> BUFFERING_FACTOR + 1,
                          amount |-> 1, ok |-> TRUE]>>),
             AllTxs, MaxBlock)

InitFair == InitEngine \/ InitTwoBodies

\* The short chains of InitFair imported by a process that, while it is
\* up, keeps taking steps: it is sequential, and the workers of a batch
\* all finish.
SpecFair == InitFair /\ [][Next]_vars /\ WF_vars(Run)

\* ------------------------------------------------- chain specifications
\* Activation blocks, addresses, and the block numbers the calls are made
\* with: one beyond the last activation block.
ForkBlocks == 0..MaxFork
Addresses == 1..MaxAddr
BlockNumbers == 0..(MaxFork + 1)

\* The declared entries (key, value) of a map m, in key order.
EntriesOf(m) ==
    LET keys == Ascending(DOMAIN m)
    IN  [j \in 1..Len(keys) |-> <<keys[j], m[keys[j]]>>]

\* The contract declared for address a at activation block b.
ContractAt(b, a) == [precompile |-> a, price |-> b]

\* Declared contracts: at each of some activation blocks, some addresses.
ContractDecls ==
    UNION {{EntriesOf([b \in D |->
                         EntriesOf([a \in g[b] |-> ContractAt(b, a)])]) :
              g \in [D -> (SUBSET Addresses) \ {{}}]} :
           D \in SUBSET ForkBlocks}

\* Declared balances: at each of some activation blocks, address 1.
BalanceDecls ==
    {EntriesOf([b \in D |-> <<<<1, b + 1>>>>]) : D \in SUBSET ForkBlocks}

\* Declared upgrades: at most two of them listed, or all nine.
UpgradeDecls ==
    UNION {[D -> ForkBlocks] :
           D \in {E \in SUBSET UpgradeNames : Cardinality(E) <= 2}}
    \cup {[f \in UpgradeNames |->
             CASE f = "homestead" -> 0
               [] f \in {"tangerine", "spurious", "byzantium"} -> 1
               [] OTHER -> MaxFork]}

\* Declared thresholds of a reward or delay map: under each of some
\* activation blocks a value that tells the blocks apart.
ThresholdDecls == {EntriesOf([b \in D |-> b + 5]) : D \in SUBSET ForkBlocks}

RonClique(p, e) == [kind |-> "Clique", period |-> p, epoch |-> e]

\* A declared Ethash engine: the optional fields are listed if given.
RonEthash(rewards, hf, baf, bomb) ==
    [kind |-> "Ethash", duration_limit |-> 13, block_reward |-> rewards,
     listed |->
        [f \in {g \in {"homestead_formula", "byzantium_adj_factor",
                       "difficulty_bomb"} :
                  \/ g = "homestead_formula" /\ IsSome(hf)
                  \/ g = "byzantium_adj_factor" /\ IsSome(baf)
                  \/ g = "difficulty_bomb" /\ IsSome(bomb)} |->
            CASE f = "homestead_formula" -> Unwrap(hf)
              [] f = "byzantium_adj_factor" -> Unwrap(baf)
              [] OTHER -> Unwrap(bomb)]]

RonNoProof == [kind |-> "NoProof"]

RonChainSpec(engine, upgrades, contracts, balances) ==
    [name |-> "Rinkeby", engine |-> engine, upgrades |-> upgrades,
     params |-> [chain_id |-> 4, network_id |-> 4],
     genesis |-> [gas_limit |-> 7],
     contracts |-> contracts, balances |-> balances]

OptionalBlocks == {None} \cup {Some(b) : b \in ForkBlocks}

\* The chain specifications looked at: Clique and NoProof chains with
\* their upgrades, or with their contracts and balances; Ethash chains
\* with their thresholds; and Ethash chains in which an upgrade, a
\* contract, a balance and a bomb delay may name the same block.
Declared ==
    {RonChainSpec(RonClique(15, 3), u, <<>>, <<>>) : u \in UpgradeDecls}
    \cup {RonChainSpec(RonClique(p, e), EmptyMap, <<>>, <<>>) :
             p \in {0, 1, 15}, e \in {0, 3}}
    \cup {RonChainSpec(RonNoProof, EmptyMap, c, <<>>) : c \in ContractDecls}
    \cup {RonChainSpec(RonClique(15, 3), EmptyMap, c, b) :
             c \in ContractDecls, b \in BalanceDecls}
    \cup {RonChainSpec(RonEthash(r, hf, baf, d), EmptyMap, <<>>, <<>>) :
             r \in ThresholdDecls, hf \in OptionalBlocks, baf \in OptionalBlocks,
             d \in {None} \cup {Some(t) : t \in ThresholdDecls}}
    \cup {RonChainSpec(
               RonEthash(<<<<0, 5>>>>, None, None,
                         IF d = None THEN None ELSE Some(<<<<Unwrap(d), 9>>>>)),
               IF h = None THEN EmptyMap ELSE [f \in {"homestead"} |-> Unwrap(h)],
               IF c = None THEN <<>>
               ELSE <<<<Unwrap(c), <<<<1, ContractAt(Unwrap(c), 1)>>>>>>>>,
               IF b = None THEN <<>> ELSE <<<<Unwrap(b), <<<<1, 1>>>>>>>>) :
             h \in OptionalBlocks, c \in OptionalBlocks, b \in OptionalBlocks,
             d \in OptionalBlocks}

\* A chain specification is loaded and asked for block specifications, for
\* its forks and, by the Ethash engine, for block parameters; the importer
\* is not running.
InitChain ==
    /\ InitImporter(GenesisOnly(Header), GenesisOnly(HeadersTotalDifficulty),
                    GenesisOnly(CanonicalHeader), BodyTable(<<GenesisBody>>),
                    AllTxs, 0)
    /\ ron \in {Some(r) : r \in Declared}
    /\ chain_spec = None
    /\ call = None
    /\ consensus = None

\* The headers verified here are told apart by their number only.
NextChain ==
    \/ Deserialize
    \/ \E n \in BlockNumbers : CollectBlockSpec(n)
    \/ GatherForks
    \/ InitConsensus
    \/ \E n \in BlockNumbers :
          VerifyHeader([number |-> n, timestamp |-> 1, difficulty |-> 131072,
                        ommers_hash |-> EMPTY_LIST_HASH],
                       [number |-> 0, timestamp |-> 0, difficulty |-> 131072,
                        ommers_hash |-> EMPTY_LIST_HASH])

SpecChain == InitChain /\ [][NextChain]_vars

\* ------------------------------------------------------- header verification
\* Ethash chains without and with each difficulty rule and bomb, a Clique
\* chain and a NoProof chain.
DeclaredHeader ==
    {RonChainSpec(RonEthash(<<<<0, 5>>>>, hf, baf, d), EmptyMap, <<>>, <<>>) :
        hf \in {None, Some(1)}, baf \in {None, Some(MaxFork)},
        d \in {None, Some(<<<<0, 0>>>>), Some(<<<<0, 0>>, <<MaxFork, 1>>>>)}}
    \cup {RonChainSpec(RonClique(15, 3), EmptyMap, <<>>, <<>>),
          RonChainSpec(RonNoProof, EmptyMap, <<>>, <<>>)}

\* The headers verified: of every number, on time and late, of several
\* difficulties, without and with ommers of their own.
Headers ==
    [number : BlockNumbers, timestamp : {4, 22},
     difficulty : {131136, 131137, 262272},
     ommers_hash : {EMPTY_LIST_HASH, "ommers"}]

\* Their parents: never younger than the header.
Parents ==
    [number : {0}, timestamp : {0, 4}, difficulty : {131072, 262144},
     ommers_hash : {EMPTY_LIST_HASH, "ommers"}]

InitHeader ==
    /\ InitImporter(GenesisOnly(Header), GenesisOnly(HeadersTotalDifficulty),
                    GenesisOnly(CanonicalHeader), BodyTable(<<GenesisBody>>),
                    AllTxs, 0)
    /\ ron \in {Some(r) : r \in DeclaredHeader}
    /\ chain_spec = None
    /\ call = None
    /\ consensus = None

NextHeader ==
    \/ Deserialize
    \/ InitConsensus
    \/ \E header \in Headers, parent \in Parents : VerifyHeader(header, parent)
    \/ \E header \in Headers, parent \in Parents : NoProofVerifyHeader(header, parent)

SpecHeader == InitHeader /\ [][NextHeader]_vars

\* ================================================================= claims
\* ---------------------------------------------------------------- helpers
\* The process is inside the execute of a convert stage and has not failed.
Converting ==
    /\ pc \in {"extract", "convert", "drain", "flush", "return"}
    /\ Stages[stage] \in TableStages \cup {ConvertBodies}

\* The table the running convert stage walks and appends to.
CurTable == TableOf(Stages[stage])

\* The writer is opened on the last commit at every invocation, so what this
\* invocation has appended to T is what tx holds beyond disk.
Appended(T) == SubSeq(tx.tables[T], Len(disk.tables[T]) + 1, Len(tx.tables[T]))

\* Index of the first source entry the walk of this invocation yields.
StartIndex == Seek(Source(CurTable), EncodeU64(UnwrapOr(input.stage_progress, 0) + 1))

Keys(tbl) == [j \in 1..Len(tbl) |-> KeyOf(tbl[j])]

StrictlyAscending(tbl) == \A j \in 1..(Len(tbl) - 1) : LexLess(KeyOf(tbl[j]), KeyOf(tbl[j + 1]))

\* The transactions the stage reads for the source bodies from..upto, in
\* the order read.
RECURSIVE TxsRead(_, _)
TxsRead(from, upto) ==
    IF from > upto THEN <<>>
    ELSE TakeTxs(Source(BlockTransaction), Unwrap(DecodeBody(ValueOf(Source(BlockBody)[from]))))
         \o TxsRead(from + 1, upto)

\* --------------------------------------------------------------------- C1
\* C1 (as amended): whatever the order the workers finish in, every result
\* is stored at the index of the entry it was made from, the entries the
\* invocation has appended to the converted table (T for convert_table,
\* BlockBody for ConvertBodies) are the first entries of its source walk in
\* the order read, the transactions appended are those read for these
\* bodies in the order read, every append issued on the converted table
\* meets the append precondition, and every target table stays strictly
\* ascending.
C1_OrderedAppend ==
    /\ (pc = "convert" /\ Stages[stage] \in TableStages =>
          \A j \in 1..Len(batch) :
              converted[j] # None => converted[j] = Some(TableConvertEntry(CurTable, batch[j])))
    /\ (pc = "convert" /\ Stages[stage] = ConvertBodies =>
          \A j \in 1..Len(batch) :
              converted[j] # None => converted[j] = Some(BodiesConvertEntry(batch[j])))
    /\ (Converting =>
          /\ Len(Appended(CurTable)) = walker - StartIndex - Len(converted)
          /\ Keys(Appended(CurTable)) =
               Keys(SubSeq(Source(CurTable), StartIndex,
                           StartIndex + Len(Appended(CurTable)) - 1)))
    /\ (Converting /\ Stages[stage] = ConvertBodies =>
          Keys(Appended(BlockTransaction)) =
            Keys(TxsRead(StartIndex, StartIndex + Len(Appended(BlockBody)) - 1)))
    /\ (pc = "drain" /\ Unwrap(Head(converted)).ok =>
          CanAppend(tx.tables[CurTable], Unwrap(Head(converted)).key))
    /\ \A T \in Tables : StrictlyAscending(tx.tables[T]) /\ StrictlyAscending(disk.tables[T])

\* C1 witness: a batch whose workers finished out of index order has been
\* drained, and the invocation has appended at least two entries.
C1_Witness ==
    /\ reordered
    /\ pc \in {"extract", "flush"}
    /\ Stages[stage] \in TableStages \cup {ConvertBodies}
    /\ Len(Appended(CurTable)) >= 2

\* C1 as stated: no append of a convert stage fails with OutOfOrderAppend.
C1_NoAppendFails == ~(IsSome(output) /\ Unwrap(output).kind = OutOfOrderAppend)

\* --------------------------------------------------------------------- C2
\* What one execute of ConvertBodies that never meets the flush deadline
\* makes of the source bodies from index w on: every body is decoded,
\* converted and appended with its transactions, in walk order.
RECURSIVE SinglePass(_, _, _, _)
SinglePass(w, bodies, txs, hb) ==
    IF w > Len(Source(BlockBody))
    THEN [ok |-> TRUE, bodies |-> bodies, txs |-> txs, progress |-> hb]
    ELSE LET e == Source(BlockBody)[w]
             body == DecodeBody(ValueOf(e))
             res == IF body = None THEN ConvertErr
                    ELSE BodiesConvertEntry([key |-> KeyOf(e), body |-> Unwrap(body),
                             txs |-> TakeTxs(Source(BlockTransaction), Unwrap(body))])
             r == AppendTxs(txs, res.txs)
         IN  IF ~res.ok \/ ~CanAppend(bodies, res.key) \/ ~r.ok
             THEN [ok |-> FALSE, bodies |-> bodies, txs |-> txs, progress |-> hb]
             ELSE SinglePass(w + 1, Append(bodies, <<res.key, res.value>>), r.table,
                             Unwrap(res.block_num))

\* The single-pass import of the source as it is now into the target as
\* initialised.
SinglePassImport ==
    SinglePass(Seek(Source(BlockBody), EncodeSeekKey(1)),
               Genesis.tables[BlockBody], Genesis.tables[BlockTransaction], 0)

\* C2: when ConvertBodies returns done = true, after however many
\* invocations and commits, BlockBody, BlockTransaction and the progress it
\* returns equal those of a single-pass import of the source.
C2_SplitEqualsSinglePass ==
    (pc = "returned" /\ Stages[stage] = ConvertBodies /\ IsProgress(output)
       /\ Unwrap(output).done) =>
        /\ SinglePassImport.ok
        /\ tx.tables[BlockBody] = SinglePassImport.bodies
        /\ tx.tables[BlockTransaction] = SinglePassImport.txs
        /\ Unwrap(output).stage_progress = SinglePassImport.progress

\* --------------------------------------------------------------------- C3
\* The source entries of the running stage whose key is >= the big-endian
\* encoding of p + 1, p the recorded progress (0 if absent), in key order.
SourceAboveProgress ==
    LET from == EncodeU64(UnwrapOr(input.stage_progress, 0) + 1)
    IN  SelectSeq(Source(CurTable), LAMBDA e : LexLeq(from, KeyOf(e)))

\* C3: when the execute of a convert_table stage returns successfully, what
\* it has appended is, entry by entry and in source order, the source
\* entries with key >= encode(p + 1): the key bytes as they are, the value
\* decoded and re-encoded.
C3_TableImport ==
    (pc = "returned" /\ Stages[stage] \in TableStages /\ IsProgress(output)) =>
        /\ Len(Appended(CurTable)) = Len(SourceAboveProgress)
        /\ \A j \in 1..Len(SourceAboveProgress) :
              /\ KeyOf(Appended(CurTable)[j]) = KeyOf(SourceAboveProgress[j])
              /\ Some(ValueOf(Appended(CurTable)[j]))
                   = ReencodeValue(CurTable, ValueOf(SourceAboveProgress[j]))

\* C3 witness: a convert_table stage resumed from a recorded progress >= 1
\* has returned after appending two entries.
C3_Witness ==
    /\ pc = "returned"
    /\ Stages[stage] \in TableStages
    /\ IsProgress(output)
    /\ UnwrapOr(input.stage_progress, 0) >= 1
    /\ Len(Appended(CurTable)) >= 2

\* --------------------------------------------------------------------- C4
MaxOf(S) == IF S = {} THEN 0
            ELSE LET x == CHOOSE y \in S : \A z \in S : z <= y IN x

BlocksOf(tbl) == {BlockOf(tbl[j]) : j \in 1..Len(tbl)}

\* Index of the first entry of tbl with a block number above p.
FirstAbove(tbl, p) == Cardinality({j \in 1..Len(tbl) : BlockOf(tbl[j]) <= p}) + 1

\* The execute of a convert stage runs with a recorded progress.
Resumed == IsSome(input.stage_progress)

\* C4 as stated, its last part: a resumed convert stage that finishes
\* returns the highest block number present in its source table.
C4_FinishesAtSourceHeight ==
    (pc = "returned" /\ Stages[stage] \in TableStages \cup {ConvertBodies}
       /\ Resumed /\ IsProgress(output) /\ Unwrap(output).done) =>
        Unwrap(output).stage_progress = MaxOf(BlocksOf(Source(CurTable)))

\* C4 (as amended): a convert stage resumed from recorded progress p walks
\* its source from the first entry of a block above p, appends no entry of
\* a block <= p, keeps the target free of duplicate keys, and when it
\* finishes returns the highest block number of its source table, or p if
\* the source holds no block above p.
C4_ResumeAfterCommit ==
    /\ (Converting /\ Resumed =>
          /\ walker - Len(converted) - Len(Appended(CurTable))
               = FirstAbove(Source(CurTable), Unwrap(input.stage_progress))
          /\ \A j \in 1..Len(Appended(CurTable)) :
                BlockOf(Appended(CurTable)[j]) > Unwrap(input.stage_progress)
          /\ StrictlyAscending(tx.tables[CurTable]))
    /\ ((pc = "returned" /\ Stages[stage] \in TableStages \cup {ConvertBodies}
           /\ Resumed /\ IsProgress(output) /\ Unwrap(output).done) =>
          Unwrap(output).stage_progress
            = MaxOf(BlocksOf(Source(CurTable)) \cup {Unwrap(input.stage_progress)}))

\* C4 witness: a convert_table stage, which records a progress only when
\* it is done and so meets it again only after a restart, has resumed from
\* a recorded progress >= 1 over a source that has grown, appended an entry
\* and finished at the source height.
C4_Witness ==
    /\ pc = "returned"
    /\ Stages[stage] \in TableStages
    /\ IsProgress(output) /\ Unwrap(output).done
    /\ Resumed /\ Unwrap(input.stage_progress) >= 1
    /\ Len(Appended(CurTable)) >= 1
    /\ Unwrap(output).stage_progress = MaxOf(BlocksOf(Source(CurTable)))

\* --------------------------------------------------------------------- C5
\* The source walk of the running convert stage is exhausted.
Exhausted == walker > Len(Source(CurTable))

C6_BatchWithinBufferingFactor ==
    Converting => Len(batch) <= BUFFERING_FACTOR

\* --------------------------------------------------------------------- C7
ConvertStages == TableStages \cup {ConvertBodies}

\* The progress of stage S recorded in database state db, absent as 0.
Recorded(db, S) == UnwrapOr(db.progress[S], 0)

\* C7: the stage_progress a convert stage returns is >= the recorded
\* progress it was given (absent as 0), and the progress of a convert
\* stage, in the writer and in the committed state, never decreases from
\* one step to the next, restarts included.
C7_ProgressMonotonic ==
    /\ []((pc = "returned" /\ Stages[stage] \in ConvertStages /\ IsProgress(output)) =>
            Unwrap(output).stage_progress >= UnwrapOr(input.stage_progress, 0))
    /\ [][\A S \in ConvertStages :
             /\ Recorded(disk', S) >= Recorded(disk, S)
             /\ Recorded(tx', S) >= Recorded(tx, S)]_vars

\* C7 witness: a convert stage resumed from recorded progress p >= 1 finds
\* no source entry above p, while the previous stage stands below p, and
\* returns p.
C7_Witness ==
    /\ pc = "returned"
    /\ Stages[stage] \in ConvertStages
    /\ IsProgress(output)
    /\ Resumed /\ Unwrap(input.stage_progress) >= 1
    /\ IsSome(input.previous_stage)
    /\ Unwrap(input.previous_stage).progress < Unwrap(input.stage_progress)
    /\ Appended(CurTable) = <<>>
    /\ Unwrap(output).stage_progress = Unwrap(input.stage_progress)

\* --------------------------------------------------------------------- C8
\* The transaction ids present in table tbl.
TxIds(tbl) == {FromBigEndian(KeyOf(tbl[j])) : j \in 1..Len(tbl)}

\* C8: in the committed target, every BlockBody entry has each of the keys
\* base_tx_id .. base_tx_id + tx_amount - 1 in BlockTransaction.
C8_BodyTxsPresent ==
    \A j \in 1..Len(disk.tables[BlockBody]) :
        LET body == Unwrap(DecodeBody(ValueOf(disk.tables[BlockBody][j])))
        IN  \A id \in body.base_tx_id..(body.base_tx_id + body.tx_amount - 1) :
                id \in TxIds(disk.tables[BlockTransaction])

\* --------------------------------------------------------------------- C9
\* C9: the committed state holds no entry of a convert stage above that
\* stage's committed progress; once the genesis block is in it, it
\* changes only when the engine commits,
\* after an execute that asked for it or after an unwind, and then to the
\* whole writer state, progress and entries together; when
\* the process goes down, killed or not, the committed state is unchanged
\* and nothing of the writer outlives it.
C9_CrashConsistent ==
    /\ [](\A S \in ConvertStages : \A j \in 1..Len(disk.tables[TableOf(S)]) :
             BlockOf(disk.tables[TableOf(S)][j]) <= Recorded(disk, S))
    /\ [][disk' # disk =>
             /\ disk' = tx'
             /\ \/ /\ pc = "returned" /\ IsProgress(output) /\ Unwrap(output).must_commit
                   /\ disk'.progress[Stages[stage]] = Some(Unwrap(output).stage_progress)
                \/ /\ pc = "genesis" /\ disk = Fresh /\ disk' = Genesis
                \/ /\ pc = "unwind"
                   /\ disk'.tables = disk.tables
                   /\ disk'.progress[Stages[stage]] = Some(Unwrap(output).unwind_to)]_vars
    /\ [][(pc # "down" /\ pc' = "down") => (disk' = disk /\ tx' = disk)]_vars

\* C9 witness: the process has been killed with ConvertBodies committed up
\* to a block >= 1 and source bodies still to import.
C9_Witness ==
    /\ pc = "down" /\ how = "crash"
    /\ Recorded(disk, ConvertBodies) >= 1
    /\ Len(disk.tables[BlockBody]) >= 2
    /\ Len(disk.tables[BlockBody]) < Len(Source(BlockBody))

\* -------------------------------------------------------------------- C10
\* The source entries the running invocation has walked so far.
Walked == SubSeq(Source(CurTable), StartIndex, walker - 1)

\* Entry e of the running stage's source table decodes and re-encodes.
Decodable(e) ==
    /\ DecodeKey(CurTable, KeyOf(e)) # None
    /\ IF CurTable = BlockBody
       THEN /\ DecodeBody(ValueOf(e)) # None
            /\ LET txs == TakeTxs(Source(BlockTransaction), Unwrap(DecodeBody(ValueOf(e))))
               IN  \A j \in 1..Len(txs) : ReencodeTransaction(ValueOf(txs[j])) # None
       ELSE ReencodeValue(CurTable, ValueOf(e)) # None

\* C10: a convert stage returns an ExecOutput only if every entry it walked
\* decoded and re-encoded and every one was appended; when it returns an
\* error instead, the next step takes the process down with the committed
\* state unchanged and the writer, entries and progress, discarded.
C10_ErrorAborts ==
    /\ []((pc = "returned" /\ Stages[stage] \in ConvertStages /\ IsProgress(output)) =>
            /\ \A j \in 1..Len(Walked) : Decodable(Walked[j])
            /\ Keys(Appended(CurTable)) = Keys(Walked)
            /\ \A T \in Tables : StrictlyAscending(tx.tables[T]))
    /\ [](IsError(output) => pc \in {"returned", "down"})
    /\ []((IsError(output) /\ pc = "down") => (tx = disk /\ how = "error"))
    /\ [][(pc = "returned" /\ IsError(output)) =>
             (pc' = "down" /\ disk' = disk /\ tx' = disk)]_vars

\* C10 witness: execute has returned an error after appending an entry in
\* the same invocation.
C10_Witness ==
    /\ pc = "returned"
    /\ Stages[stage] \in ConvertStages
    /\ IsError(output)
    /\ Len(Appended(CurTable)) >= 1

\* -------------------------------------------------------------------- C11
\* C11: in a run started at the state a completed run left, over an
\* unchanged source, nothing is appended: the writer and the committed
\* state keep every target table as it was, and no step changes the
\* recorded progress of a convert stage, in the writer or committed.
C11_IdempotentRestart ==
    /\ [](rerun => \A T \in Tables : tx.tables[T] = disk.tables[T])
    /\ [][rerun /\ rerun' =>
            /\ disk'.tables = disk.tables
            /\ \A S \in ConvertStages :
                  /\ disk'.progress[S] = disk.progress[S]
                  /\ tx'.progress[S] = tx.progress[S]]_vars

\* C11 witness: the second run over an unchanged source has completed too,
\* after a first run that imported blocks.
C11_Witness ==
    /\ rerun
    /\ pc = "down" /\ how = "exit0"
    /\ \E S \in ConvertStages :
          Len(disk.tables[TableOf(S)]) >= 2 /\ Recorded(disk, S) >= 1

\* -------------------------------------------------------------------- C12
\* The chain of stages each handed to the next as previous_stage.
ConvertChain == <<ConvertHeaders, ConvertHeadersTD, ConvertCanonical, ConvertBodies>>

\* C12: between stage invocations and in every committed state, the
\* progress of each convert stage is <= that of the stage before it.
C12_ProgressOrdering ==
    \A k \in 1..(Len(ConvertChain) - 1) :
        /\ Recorded(disk, ConvertChain[k + 1]) <= Recorded(disk, ConvertChain[k])
        /\ pc \in {"engine", "down"} =>
              Recorded(tx, ConvertChain[k + 1]) <= Recorded(tx, ConvertChain[k])

\* -------------------------------------------------------------------- C13
BlockKeyed == {Header, HeadersTotalDifficulty, CanonicalHeader, BlockBody}

\* Database state db holds nothing above block h: no entry of a block-keyed
\* table and no stage's progress.
NothingAbove(db, h) ==
    /\ \A T \in BlockKeyed : \A j \in 1..Len(db.tables[T]) : BlockOf(db.tables[T][j]) <= h
    /\ \A S \in StageIds : UnwrapOr(db.progress[S], 0) <= h

\* C13: once a stage has returned Unwind{unwind_to: H} and the engine is
\* quiescent again (the unwind pass is over, or the process is down), the
\* writer and the committed state hold nothing above H.
C13_UnwoundToHeight ==
    (IsUnwind(output) /\ pc \in {"engine", "down"}) =>
        /\ NothingAbove(tx, Unwrap(output).unwind_to)
        /\ NothingAbove(disk, Unwrap(output).unwind_to)

\* -------------------------------------------------------------------- C14
\* C14: the stages are those of execute_with_erigon in registration order;
\* the stage in turn changes only to the next one, after an execute that
\* returned Progress with done = true, or back to the first one (a new run,
\* or the forward loop resuming), or in the unwind pass; an execute of a
\* stage other than the first starts only after the stage before it was
\* done in this run; and from the return of an execute to the start of the
\* next one the writer keeps every table as the stage left it, recording
\* only the progress returned.
C14_SerialInOrder ==
    /\ [](Stages = <<ConvertHeaders, ConvertHeadersTD, ConvertCanonical, ConvertBodies,
                     BlockHashes, SenderRecovery, Execution, TerminatingStage>>)
    /\ [][stage' # stage =>
            \/ /\ pc = "returned" /\ IsProgress(output) /\ Unwrap(output).done
               /\ stage' = stage + 1
               /\ previous_stage' = Some([id |-> Stages[stage],
                                          progress |-> Unwrap(output).stage_progress])
            \/ stage' = 1
            \/ pc' = "unwind"]_vars
    /\ []((pc = "begin" /\ stage > 1) =>
            /\ IsSome(input.previous_stage)
            /\ Unwrap(input.previous_stage).id = Stages[stage - 1]
            /\ tx.progress[Stages[stage - 1]]
                 = Some(Unwrap(input.previous_stage).progress))
    /\ [][(pc = "returned" /\ IsProgress(output) /\ pc' = "engine") =>
            tx' = [tx EXCEPT !.progress[Stages[stage]] = Some(Unwrap(output).stage_progress)]]_vars
    /\ [][(pc = "engine" /\ pc' = "begin") => tx' = tx]_vars

\* C14 witness: the execute of BlockHashes starts after ConvertBodies was
\* done, with the bodies ConvertBodies appended in the writer.
C14_Witness ==
    /\ pc = "begin"
    /\ Stages[stage] = BlockHashes
    /\ Unwrap(input.previous_stage).id = ConvertBodies
    /\ Len(tx.tables[BlockBody]) >= 2
    /\ Len(tx.tables[BlockTransaction]) >= 1

\* -------------------------------------------------------------------- C15
\* C15: the step the engine takes after an execute returned Progress
\* records stage_progress as progress[S] in the writer and changes no
\* table; it commits the writer if must_commit and leaves the committed
\* state alone otherwise; it invokes no stage itself; it stays at the stage
\* if done = false and moves to the next one otherwise; and every execute
\* is given the progress the writer holds for its stage.
C15_EngineOnProgress ==
    /\ [][(pc = "returned" /\ IsProgress(output) /\ pc' # "down") =>
            LET out == Unwrap(output)
                S == Stages[stage]
            IN  /\ tx'.progress[S] = Some(out.stage_progress)
                /\ \A U \in StageIds \ {S} : tx'.progress[U] = tx.progress[U]
                /\ tx'.tables = tx.tables
                /\ disk' = IF out.must_commit THEN tx' ELSE disk
                /\ pc' = "engine"
                /\ stage' = IF out.done THEN stage + 1 ELSE stage]_vars
    /\ [](pc = "begin" => input.stage_progress = tx.progress[Stages[stage]])
    /\ [][(pc = "engine" /\ pc' = "begin") => (stage' = stage /\ disk' = disk)]_vars

\* C15 witness: ConvertBodies has returned done = false and the engine has
\* recorded and committed the progress returned, staying at ConvertBodies.
C15_Witness ==
    /\ pc = "engine"
    /\ Stages[stage] = ConvertBodies
    /\ IsProgress(output)
    /\ ~Unwrap(output).done /\ Unwrap(output).must_commit
    /\ Unwrap(output).stage_progress >= 1
    /\ tx.progress[ConvertBodies] = Some(Unwrap(output).stage_progress)
    /\ disk = tx

\* -------------------------------------------------------------------- C16
\* C16: when the pipeline ends, that is when TerminatingStage, its last
\* stage, ends the process, everything the stages before it have written
\* to the writer, tables and progress alike, is in the committed state a
\* later reader sees.
C16_CommittedAtPipelineEnd ==
    [][(pc = "begin" /\ Stages[stage] = TerminatingStage
          /\ pc' = "down" /\ how' = "exit0") => disk' = tx]_vars

\* -------------------------------------------------------------------- C17
\* C17: a returned Unwind{unwind_to} switches the engine to the unwind
\* pass, which starts at the last registered stage and goes down one stage
\* per step; a stage whose progress is above unwind_to has its progress
\* set to unwind_to, any other stage is left alone, and the forward loop
\* resumes only after the first registered stage has been passed.
C17_UnwindPass ==
    /\ [][(pc = "returned" /\ IsUnwind(output) /\ how' # "crash") =>
            (pc' = "unwind" /\ stage' = Len(Stages))]_vars
    /\ [][(pc = "unwind" /\ how' # "crash") =>
            LET S == Stages[stage]
                h == Unwrap(output).unwind_to
            IN  /\ tx'.progress[S] = IF UnwrapOr(tx.progress[S], 0) > h
                                     THEN Some(h) ELSE tx.progress[S]
                /\ IF stage = 1
                   THEN pc' = "engine" /\ stage' = 1
                   ELSE pc' = "unwind" /\ stage' = stage - 1]_vars

\* -------------------------------------------------------------------- C18
\* C18 for the appends to the converted table: an append of key k to a
\* table whose last appended key is k' succeeds, putting the entry last, iff k > k' (or the table is empty);
\* otherwise the stage fails with OutOfOrderAppend and the writer is as it
\* was, its table still ending at k'.
C18_AppendMonotonic ==
    [][(pc = "drain" /\ Stages[stage] \in ConvertStages /\ how' # "crash"
          /\ Unwrap(Head(converted)).ok) =>
            LET res == Unwrap(Head(converted))
                T == TableOf(Stages[stage])
                tbl == tx.tables[T]
            IN  IF Len(tbl) = 0 \/ LexLess(KeyOf(tbl[Len(tbl)]), res.key)
                THEN tx'.tables[T] = Append(tbl, <<res.key, res.value>>)
                ELSE /\ output' = Some(Failed(OutOfOrderAppend))
                     /\ pc' = "returned"
                     /\ tx' = tx]_vars

\* C18 for the tx_cur appends that follow a body's append: the
\* transactions of the body are appended in turn while each key is above
\* the last key of BlockTransaction; the first one that is not fails the
\* stage with OutOfOrderAppend and leaves the table ending at that last key.
C18_TxAppendMonotonic ==
    [][(pc = "drain" /\ Stages[stage] = ConvertBodies /\ how' # "crash"
          /\ Unwrap(Head(converted)).ok
          /\ tx'.tables[BlockBody] # tx.tables[BlockBody]) =>
            LET txs == Unwrap(Head(converted)).txs
                old == tx.tables[BlockTransaction]
                new == tx'.tables[BlockTransaction]
                n == Len(new) - Len(old)
            IN  /\ n \in 0..Len(txs)
                /\ new = old \o SubSeq(txs, 1, n)
                /\ \A j \in 2..Len(new) :
                      j > Len(old) => LexLess(KeyOf(new[j - 1]), KeyOf(new[j]))
                /\ IF n = Len(txs)
                   THEN output' = output
                   ELSE /\ Len(new) > 0
                        /\ ~LexLess(KeyOf(new[Len(new)]), KeyOf(txs[n + 1]))
                        /\ output' = Some(Failed(OutOfOrderAppend))
                        /\ pc' = "returned"]_vars

\* C18: both of the above.
C18_AppendIffAbove == C18_AppendMonotonic /\ C18_TxAppendMonotonic

\* C18 witness: an append below the last key has failed: ConvertBodies has
\* returned OutOfOrderAppend, and the body it was draining has a
\* transaction whose key is not above the last key of BlockTransaction.
C18_Witness ==
    /\ pc = "returned"
    /\ Stages[stage] = ConvertBodies
    /\ output = Some(Failed(OutOfOrderAppend))
    /\ Len(converted) >= 1
    /\ LET tbl == tx.tables[BlockTransaction]
           txs == Unwrap(Head(converted)).txs
       IN  /\ Len(tbl) >= 1
           /\ \E j \in 1..Len(txs) : ~LexLess(KeyOf(tbl[Len(tbl)]), KeyOf(txs[j]))

\* -------------------------------------------------------------------- C19
\* C19: never more than one read-write transaction is open on the target;
\* the writer of the genesis block is closed, committed or dropped, before
\* the run opens its own; from then until the process goes down exactly
\* one writer is open, held by the one stage the engine is at; and the
\* source database is never written, growing only while the process is
\* down.
C19_SingleWriter ==
    /\ [](writers <= 1)
    /\ [](pc = "genesis" => writers = 1)
    /\ [](pc \in {"down", "run"} => writers = 0)
    /\ [](pc \notin {"down", "genesis", "run"} =>
             (writers = 1 /\ stage \in 1..Len(Stages)))
    /\ [][pc = "run" => (writers = 0 /\ writers' \in {0, 1})]_vars
    /\ [][erigon' = erigon /\ (pc # "down" => erigon_height' = erigon_height)]_vars

\* C19 witness: the genesis writer has come and gone, the run has opened
\* its writer and ConvertBodies holds it with appends not yet committed.
C19_Witness ==
    /\ pc = "drain"
    /\ Stages[stage] = ConvertBodies
    /\ writers = 1
    /\ disk # Fresh
    /\ Len(tx.tables[BlockBody]) > Len(disk.tables[BlockBody])

\* -------------------------------------------------------------------- C20
\* The source holds block 0 only.
OnlyGenesisInSource == \A T \in BlockKeyed : BlocksOf(Source(T)) = {0}

\* C20: with block 0 alone in the source, the target holds what
\* initialize_genesis put there and nothing else while the convert stages
\* run, BlockTransaction being empty; and a convert stage run without
\* recorded progress returns Progress with stage_progress 0 and done = true.
C20_EmptyImport ==
    (OnlyGenesisInSource /\ Stages[stage] \in ConvertStages
       /\ pc \notin {"down", "genesis", "run"}) =>
        /\ tx.tables = Genesis.tables
        /\ tx.tables[BlockTransaction] = <<>>
        /\ (pc = "returned" /\ ~Resumed) =>
              /\ IsProgress(output)
              /\ Unwrap(output).stage_progress = 0
              /\ Unwrap(output).done

\* C20 witness: ConvertBodies, the last convert stage, has returned from
\* its first execute over a source of block 0 alone.
C20_Witness ==
    /\ OnlyGenesisInSource
    /\ pc = "returned"
    /\ Stages[stage] = ConvertBodies
    /\ ~Resumed
    /\ IsSome(output)

\* -------------------------------------------------------------------- C21
\* The tables a convert stage converts into.
OwnTables(S) ==
    CASE S = ConvertHeaders -> {Header}
      [] S = ConvertHeadersTD -> {HeadersTotalDifficulty}
      [] S = ConvertCanonical -> {CanonicalHeader}
      [] OTHER -> {BlockBody, BlockTransaction}

\* C21: a step taken inside the execute of a convert stage leaves the
\* recorded progress of every stage and every table other than the stage's
\* own as the writer held them, commits nothing, opens and closes no writer
\* and leaves the source database as it was.
C21_StageFrame ==
    [][(pc \in {"begin", "extract", "convert", "drain", "flush", "return"}
          /\ Stages[stage] \in ConvertStages /\ how' # "crash") =>
            /\ tx'.progress = tx.progress
            /\ \A T \in Tables \ OwnTables(Stages[stage]) : tx'.tables[T] = tx.tables[T]
            /\ disk' = disk
            /\ writers' = writers
            /\ erigon' = erigon /\ erigon_height' = erigon_height]_vars

\* C21 witness: ConvertBodies has appended bodies and transactions to the
\* writer, none of them committed, and no progress has been touched.
C21_Witness ==
    /\ pc = "flush"
    /\ Stages[stage] = ConvertBodies
    /\ Len(tx.tables[BlockBody]) > Len(disk.tables[BlockBody])
    /\ Len(tx.tables[BlockTransaction]) > Len(disk.tables[BlockTransaction])
    /\ tx.progress = disk.progress

\* -------------------------------------------------------------------- C22
\* C22: a run, once started, reaches the execute of TerminatingStage
\* unless a stage fails or the process is killed; that execute ends the
\* process with exit status 0, committing nothing, and returns nothing to
\* the engine, so that no progress is ever recorded for TerminatingStage.
C22_ReachesTerminating ==
    /\ (pc = "run") ~> \/ pc = "begin" /\ Stages[stage] = TerminatingStage
                       \/ pc = "down" /\ how \in {"error", "crash"}
    /\ (pc = "begin" /\ Stages[stage] = TerminatingStage)
          ~> (pc = "down" /\ how \in {"exit0", "crash"})
    /\ [][(pc = "begin" /\ Stages[stage] = TerminatingStage) =>
             (pc' = "down" /\ how' \in {"exit0", "crash"} /\ disk' = disk)]_vars
    /\ [](Stages[stage] = TerminatingStage => pc \in {"engine", "begin", "down"})
    /\ [](tx.progress[TerminatingStage] = None /\ disk.progress[TerminatingStage] = None)

\* C22 witness: the process has ended in TerminatingStage with the chain
\* imported.
C22_Witness ==
    /\ pc = "down" /\ how = "exit0"
    /\ Stages[stage] = TerminatingStage
    /\ \A S \in ConvertStages : disk.progress[S] = Some(1)

\* -------------------------------------------------------------------- C23
\* The declared entries of a map of maps are what the map holds: its keys
\* are the declared blocks, and under each block there is one entry per
\* declared address, with the declared value.
HoldsDeclared(m, entries) ==
    /\ DOMAIN m = {entries[j][1] : j \in 1..Len(entries)}
    /\ \A j \in 1..Len(entries) :
          LET inner == entries[j][2]
          IN  /\ DOMAIN m[entries[j][1]] = {inner[k][1] : k \in 1..Len(inner)}
              /\ Cardinality(DOMAIN m[entries[j][1]]) = Len(inner)
              /\ \A k \in 1..Len(inner) : m[entries[j][1]][inner[k][1]] = inner[k][2]

\* C23: the ChainSpec deserialized equals the declared configuration field
\* by field: name, params and genesis as declared; a Clique period p a
\* Duration of p milliseconds, the epoch as declared; every listed upgrade
\* Some of its block and every omitted one None; contracts and balances
\* keyed by activation block with one entry per declared address.
C23_LoadedAsDeclared ==
    chain_spec # None =>
        LET r == Unwrap(ron)
            cs == Unwrap(chain_spec)
        IN  /\ cs.name = r.name /\ cs.params = r.params /\ cs.genesis = r.genesis
            /\ cs.engine.kind = r.engine.kind
            /\ r.engine.kind = "Clique" =>
                  /\ cs.engine.period = [millis |-> r.engine.period]
                  /\ cs.engine.epoch = r.engine.epoch
            /\ \A f \in UpgradeNames :
                  cs.upgrades[f] = IF f \in DOMAIN r.upgrades
                                   THEN <<r.upgrades[f]>> ELSE <<>>
            /\ HoldsDeclared(cs.contracts, r.contracts)
            /\ HoldsDeclared(cs.balances, r.balances)

\* C23 witness: a Clique chain with period 15 has been loaded, one with
\* upgrades listed and upgrades omitted; its period is 15 ms.
C23_Witness ==
    /\ chain_spec # None
    /\ Unwrap(ron).engine.kind = "Clique"
    /\ Unwrap(ron).engine.period = 15
    /\ Unwrap(chain_spec).engine.period.millis = 15
    /\ Cardinality(DOMAIN Unwrap(ron).upgrades) = 2

\* -------------------------------------------------------------------- C24
\* C24: a Progress returned by convert_table has done and must_commit
\* true; its stage_progress is the block number of the last entry the
\* invocation appended, the greatest it appended; with nothing appended it
\* is the recorded progress of the input, without one the progress of the
\* previous stage, and without a previous stage 0.
C24_TableStageProgress ==
    (pc = "returned" /\ Stages[stage] \in TableStages /\ IsProgress(output)) =>
        LET out == Unwrap(output)
            app == Appended(CurTable)
        IN  /\ out.done /\ out.must_commit
            /\ IF Len(app) > 0
               THEN /\ out.stage_progress = BlockOf(app[Len(app)])
                    /\ out.stage_progress = MaxOf(BlocksOf(app))
               ELSE IF IsSome(input.stage_progress)
               THEN out.stage_progress = Unwrap(input.stage_progress)
               ELSE IF IsSome(input.previous_stage)
               THEN out.stage_progress = Unwrap(input.previous_stage).progress
               ELSE out.stage_progress = 0

\* C24 witness: ConvertHeadersTD, which has a previous stage, has returned
\* after appending entries of two block numbers.
C24_Witness ==
    /\ pc = "returned"
    /\ Stages[stage] = ConvertHeadersTD
    /\ IsProgress(output)
    /\ IsSome(input.previous_stage)
    /\ Cardinality(BlocksOf(Appended(HeadersTotalDifficulty))) >= 2

\* -------------------------------------------------------------------- C25
\* C25: ConvertBodies looks at the flush deadline only with bodies of this
\* invocation appended; a done = false result has a stage_progress above
\* the progress of the input; done = true is returned only with the
\* source walk at its end; and an invocation of ConvertBodies leads to one
\* that returns done = true, unless the stage fails or the process is
\* killed.
C25_BodiesProgress ==
    /\ []((pc = "flush" /\ Stages[stage] = ConvertBodies) =>
            Len(tx.tables[BlockBody]) > Len(disk.tables[BlockBody]))
    /\ []((pc = "returned" /\ Stages[stage] = ConvertBodies /\ IsProgress(output)) =>
            IF Unwrap(output).done
            THEN walker > Len(Source(BlockBody))
            ELSE /\ Unwrap(output).stage_progress > UnwrapOr(input.stage_progress, 0)
                 /\ Len(tx.tables[BlockBody]) > Len(disk.tables[BlockBody]))
    /\ (pc = "begin" /\ Stages[stage] = ConvertBodies)
          ~> \/ /\ pc = "returned" /\ Stages[stage] = ConvertBodies
                /\ IsProgress(output) /\ Unwrap(output).done
             \/ pc = "down" /\ how \in {"error", "crash"}

\* C25 witness: ConvertBodies has returned done = false at block 1 with a
\* body of block 2 still in the source.
C25_Witness ==
    /\ pc = "returned"
    /\ Stages[stage] = ConvertBodies
    /\ IsProgress(output)
    /\ ~Unwrap(output).done
    /\ Unwrap(output).stage_progress = 1
    /\ walker <= Len(Source(BlockBody))

\* -------------------------------------------------------------------- C26
\* The forks from the newest to the oldest, and the revision of each.
C26_Forks ==
    <<"london", "berlin", "istanbul", "petersburg", "constantinople",
      "byzantium", "spurious", "tangerine", "homestead">>

C26_Revisions ==
    <<"London", "Berlin", "Istanbul", "Petersburg", "Constantinople",
      "Byzantium", "Spurious", "Tangerine", "Homestead">>

\* The places in C26_Forks of the forks configured with an activation
\* block <= n.
C26_Reached(upgrades, n) ==
    {k \in 1..Len(C26_Forks) :
        /\ IsSome(upgrades[C26_Forks[k]])
        /\ Unwrap(upgrades[C26_Forks[k]]) <= n}

\* C26: collect_block_spec(n) has the revision of the first fork, from
\* London down to Homestead, that is configured with an activation block
\* <= n, and Frontier if there is none; is_transition_block is set iff n is
\* the activation block of the fork selected.
C26_RevisionSelected ==
    (call # None /\ Unwrap(call).fn = "collect_block_spec" /\ ~Unwrap(call).panicked) =>
        LET upgrades == Unwrap(chain_spec).upgrades
            n == Unwrap(call).n
            ret == Unwrap(call).ret
            reached == C26_Reached(upgrades, n)
        IN  IF reached = {}
            THEN ret.revision = "Frontier" /\ ~ret.is_transition_block
            ELSE LET k == CHOOSE x \in reached : \A y \in reached : x <= y
                 IN  /\ ret.revision = C26_Revisions[k]
                     /\ ret.is_transition_block <=>
                            (n = Unwrap(upgrades[C26_Forks[k]]))

\* C26 witness: a block at which two forks are active, which is the
\* activation block of the older one and not of the newer one selected.
C26_Witness ==
    /\ call # None
    /\ Unwrap(call).fn = "collect_block_spec"
    /\ ~Unwrap(call).panicked
    /\ Cardinality(C26_Reached(Unwrap(chain_spec).upgrades, Unwrap(call).n)) = 2
    /\ \E k \in C26_Reached(Unwrap(chain_spec).upgrades, Unwrap(call).n) :
          /\ Unwrap(call).ret.revision # C26_Revisions[k]
          /\ Unwrap(Unwrap(chain_spec).upgrades[C26_Forks[k]]) = Unwrap(call).n
    /\ ~Unwrap(call).ret.is_transition_block

\* -------------------------------------------------------------------- C27
\* The activation blocks <= n under which contracts declares address a.
C27_DeclaredUpTo(contracts, a, n) ==
    {b \in DOMAIN contracts : b <= n /\ a \in DOMAIN contracts[b]}

\* C27: system_contracts of collect_block_spec(n) holds exactly the
\* addresses declared under an activation block <= n, each with the
\* contract declared for it under the greatest such block.
C27_SystemContracts ==
    (call # None /\ Unwrap(call).fn = "collect_block_spec" /\ ~Unwrap(call).panicked) =>
        LET contracts == Unwrap(chain_spec).contracts
            n == Unwrap(call).n
            sc == Unwrap(call).ret.system_contracts
        IN  /\ DOMAIN sc =
                  {a \in Addresses : C27_DeclaredUpTo(contracts, a, n) # {}}
            /\ \A a \in DOMAIN sc :
                  LET D == C27_DeclaredUpTo(contracts, a, n)
                      b == CHOOSE x \in D : \A y \in D : y <= x
                  IN  sc[a] = contracts[b][a]

\* C27 witness: an address declared under two activation blocks <= n, and
\* another one declared only above n.
C27_Witness ==
    /\ call # None
    /\ Unwrap(call).fn = "collect_block_spec"
    /\ ~Unwrap(call).panicked
    /\ \E a, c \in Addresses :
          LET contracts == Unwrap(chain_spec).contracts
              n == Unwrap(call).n
          IN  /\ Cardinality(C27_DeclaredUpTo(contracts, a, n)) >= 2
              /\ C27_DeclaredUpTo(contracts, c, n) = {}
              /\ \E b \in DOMAIN contracts : c \in DOMAIN contracts[b]
              /\ a \in DOMAIN Unwrap(call).ret.system_contracts
              /\ c \notin DOMAIN Unwrap(call).ret.system_contracts

\* -------------------------------------------------------------------- C28
\* C28: a block n > 0 at which the revision, the engine parameters or the
\* system contracts of collect_block_spec(n) are not those of
\* collect_block_spec(n - 1) is among gather_forks().
C28_ChangesAreForks ==
    (call # None /\ Unwrap(call).fn = "collect_block_spec"
        /\ ~Unwrap(call).panicked /\ Unwrap(call).n > 0) =>
        LET cs == Unwrap(chain_spec)
            n == Unwrap(call).n
            ret == Unwrap(call).ret
            before == BlockSpecOf(cs, n - 1)
        IN  (\/ ret.revision # before.revision
             \/ ret.engine # before.engine
             \/ ret.system_contracts # before.system_contracts)
            => n \in GatherForksOf(cs)

\* -------------------------------------------------------------------- C29
\* The activation blocks of the configured upgrades, and the keys of the
\* bomb delays of an Ethash engine with a difficulty bomb.
C29_UpgradeBlocks(cs) ==
    {b \in ForkBlocks : \E f \in UpgradeNames : cs.upgrades[f] = Some(b)}

C29_DelayBlocks(cs) ==
    IF cs.engine.kind # "Ethash" THEN {}
    ELSE IF cs.engine.difficulty_bomb = None THEN {}
    ELSE DOMAIN Unwrap(cs.engine.difficulty_bomb).delays

\* C29: gather_forks returns the blocks above 0 that are the activation
\* block of a configured upgrade, a key of contracts, a key of balances or
\* a key of the bomb delays, and no other block.
C29_ForksGathered ==
    (call # None /\ Unwrap(call).fn = "gather_forks") =>
        LET cs == Unwrap(chain_spec)
        IN  /\ 0 \notin Unwrap(call).ret
            /\ \A b \in 1..MaxFork :
                  b \in Unwrap(call).ret <=>
                     \/ b \in C29_UpgradeBlocks(cs)
                     \/ b \in DOMAIN cs.contracts
                     \/ b \in DOMAIN cs.balances
                     \/ b \in C29_DelayBlocks(cs)
            /\ Unwrap(call).ret \subseteq 1..MaxFork

\* C29 witness: an upgrade and a contract at the same block above 0, a
\* bomb delay at block 0, and the forks gathered.
C29_Witness ==
    /\ call # None
    /\ Unwrap(call).fn = "gather_forks"
    /\ 0 \in C29_DelayBlocks(Unwrap(chain_spec))
    /\ \E b \in 1..MaxFork :
          /\ b \in C29_UpgradeBlocks(Unwrap(chain_spec))
          /\ b \in DOMAIN Unwrap(chain_spec).contracts
          /\ b \in Unwrap(call).ret
          /\ Cardinality(Unwrap(call).ret) = 1

\* -------------------------------------------------------------------- C30
\* The value m holds under its greatest key <= n, or 0 without such a key.
C30_AtGreatestUpTo(m, n) ==
    LET D == {b \in DOMAIN m : b <= n}
    IN  IF D = {} THEN 0 ELSE m[CHOOSE x \in D : \A y \in D : y <= x]

\* C30: the block parameters verify_header derives for a header numbered
\* n are those collect_params_for_block(n) returns for the same Ethash
\* configuration: the duration limit, the reward of the greatest threshold
\* <= n or zero, each flag set iff its threshold is configured and <= n,
\* and the delay_to of the greatest delay threshold <= n or 0.
C30_SameBlockParams ==
    (call # None /\ Unwrap(call).fn = "verify_header") =>
        LET ethash == Unwrap(chain_spec).engine
            n == Unwrap(call).n
            ret == Unwrap(call).ret
        IN  /\ ret = CollectParamsForBlock(ethash, n)
            /\ ret.duration_limit = ethash.duration_limit
            /\ ret.block_reward = C30_AtGreatestUpTo(ethash.block_reward, n)
            /\ ret.homestead_formula <=>
                  \E b \in ForkBlocks : ethash.homestead_formula = Some(b) /\ b <= n
            /\ ret.byzantium_adj_factor <=>
                  \E b \in ForkBlocks : ethash.byzantium_adj_factor = Some(b) /\ b <= n
            /\ IF ethash.difficulty_bomb = None THEN ret.difficulty_bomb = None
               ELSE ret.difficulty_bomb =
                      Some([delay_to |->
                              C30_AtGreatestUpTo(Unwrap(ethash.difficulty_bomb).delays, n)])

\* C30 witness: a header whose number is the homestead threshold, lies
\* above two reward thresholds and below the byzantium threshold, with a
\* difficulty bomb whose only delay is not reached.
C30_Witness ==
    /\ call # None
    /\ Unwrap(call).fn = "verify_header"
    /\ Unwrap(chain_spec).engine.homestead_formula = Some(Unwrap(call).n)
    /\ Unwrap(call).ret.homestead_formula
    /\ Cardinality({b \in DOMAIN Unwrap(chain_spec).engine.block_reward :
                      b <= Unwrap(call).n}) = 2
    /\ Unwrap(chain_spec).engine.byzantium_adj_factor # None
    /\ ~Unwrap(call).ret.byzantium_adj_factor
    /\ Unwrap(chain_spec).engine.difficulty_bomb # None
    /\ Unwrap(call).ret.difficulty_bomb = Some([delay_to |-> 0])

\* -------------------------------------------------------------------- C31
\* C31: verify_header of the Ethash verifier returns Ok iff the header's
\* difficulty is the canonical difficulty of its number, its timestamp,
\* the parent's difficulty and timestamp, whether the parent has ommers,
\* and the block parameters of its number; otherwise it returns
\* WrongDifficulty with the canonical difficulty as expected and the
\* header's as got.
C31_DifficultyVerdict ==
    (call # None /\ Unwrap(call).fn = "verify_header") =>
        LET header == Unwrap(call).header
            parent == Unwrap(call).parent
            params == CollectParamsForBlock(Unwrap(chain_spec).engine, header.number)
            canonical == CanonicalDifficulty(header.number, header.timestamp,
                                             parent.difficulty, parent.timestamp,
                                             parent.ommers_hash # EMPTY_LIST_HASH,
                                             params)
        IN  IF header.difficulty = canonical
            THEN Unwrap(call).verdict = Ok("unit")
            ELSE Unwrap(call).verdict =
                     Err([kind |-> "WrongDifficulty", expected |-> canonical,
                          got |-> header.difficulty])

\* C31 witness: under the byzantium rule, a header with ommers of its own
\* whose parent has none is accepted.
C31_Witness ==
    /\ call # None
    /\ Unwrap(call).fn = "verify_header"
    /\ Unwrap(call).ret.byzantium_adj_factor
    /\ Unwrap(call).header.ommers_hash # EMPTY_LIST_HASH
    /\ Unwrap(call).parent.ommers_hash = EMPTY_LIST_HASH
    /\ Unwrap(call).verdict = Ok("unit")

\* -------------------------------------------------------------------- C32
\* C32: init_consensus returns the error "Clique is not yet implemented"
\* for Clique parameters, an Ethash verifier with the five parameters as
\* given for Ethash parameters, and a NoProof verifier for NoProof, whose
\* verify_header accepts every header and parent.
C32_ConsensusInitialised ==
    /\ consensus # None =>
          LET engine == Unwrap(chain_spec).engine
              result == Unwrap(consensus)
          IN  CASE engine.kind = "Clique" ->
                     /\ ~result.ok
                     /\ result.error = "Clique is not yet implemented"
                [] engine.kind = "Ethash" ->
                     /\ result.ok
                     /\ result.value.kind = "Ethash"
                     /\ result.value.duration_limit = engine.duration_limit
                     /\ result.value.block_reward = engine.block_reward
                     /\ result.value.homestead_formula = engine.homestead_formula
                     /\ result.value.byzantium_adj_factor = engine.byzantium_adj_factor
                     /\ result.value.difficulty_bomb = engine.difficulty_bomb
                [] OTHER ->
                     /\ result.ok
                     /\ result.value = [kind |-> "NoProof"]
    /\ (call # None /\ Unwrap(call).fn = "noproof_verify_header") =>
          /\ Unwrap(chain_spec).engine.kind = "NoProof"
          /\ Unwrap(call).verdict.ok

\* C32 witness: the NoProof verifier has accepted a late header with
\* ommers whose parent has another difficulty.
C32_Witness ==
    /\ consensus # None
    /\ Unwrap(consensus).ok
    /\ Unwrap(consensus).value.kind = "NoProof"
    /\ call # None
    /\ Unwrap(call).fn = "noproof_verify_header"
    /\ Unwrap(call).header.timestamp > Unwrap(call).parent.timestamp + 13
    /\ Unwrap(call).header.ommers_hash # EMPTY_LIST_HASH
    /\ Unwrap(call).header.difficulty < Unwrap(call).parent.difficulty
    /\ Unwrap(call).verdict = Ok("unit")

====
